---- MODULE Spec2Model ----
(***************************************************************************)
(* Layered raster drawing engine of src/js/cbcanvas_node.js: Layer,        *)
(* LayerManager, HistoryManager and the event handlers that drive them.    *)
(*                                                                         *)
(* Indices (activeLayerIndex, currentIndex, the index arguments) are the   *)
(* 0-based indices of the JavaScript source; a TLA+ sequence is 1-based,   *)
(* so element i of the source is s[i + 1] here.                            *)
(*                                                                         *)
(* A pixel buffer is observed at a few probe pixels (Probes): its model    *)
(* is the set of probes that carry ink.  Canvas dimensions are the real    *)
(* ones of the ASPECT_RATIOS table.                                        *)
(***************************************************************************)
EXTENDS Integers, Sequences, FiniteSets, TLC

\* ------------------------------------------------------------------ bounds
\* number of handler invocations explored in one behaviour
MaxSteps == 4
\* the "new layer" buttons are explored while the stack has fewer layers
MaxLayers == 2
\* pointer moves are explored while the gesture holds fewer samples
MaxSamples == 2

\* the values of the constructor argument maxStates explored
MaxStatesArgs == {1, 2, 3}

\* ------------------------------------------------------- canvas and pixels
\* the slider values explored by the drawing specifications (two of the 13
\* rows of ASPECT_RATIOS)
RatioKeys == {0, -6}

\* the keys of the table ASPECT_RATIOS
ASPECT_RATIO_KEYS ==
    { "-6", "-5", "-4", "-3", "-2", "-1", "0", "1", "2", "3", "4", "5", "6" }

\* the table ASPECT_RATIOS: the row of a key (width and height)
ASPECT_RATIOS(key) ==
    CASE key = "-6" -> [width |-> 1536, height |-> 640]
      [] key = "-5" -> [width |-> 1440, height |-> 720]
      [] key = "-4" -> [width |-> 1344, height |-> 768]
      [] key = "-3" -> [width |-> 1216, height |-> 832]
      [] key = "-2" -> [width |-> 1152, height |-> 896]
      [] key = "-1" -> [width |-> 1144, height |-> 912]
      [] key = "0" -> [width |-> 1024, height |-> 1024]
      [] key = "1" -> [width |-> 912, height |-> 1144]
      [] key = "2" -> [width |-> 896, height |-> 1152]
      [] key = "3" -> [width |-> 832, height |-> 1216]
      [] key = "4" -> [width |-> 768, height |-> 1344]
      [] key = "5" -> [width |-> 720, height |-> 1440]
      [] key = "6" -> [width |-> 640, height |-> 1536]

\* probe pixels: one inside both explored sizes, one only inside 1024x1024,
\* one only inside 1536x640
Probes == { [x |-> 100, y |-> 100], [x |-> 100, y |-> 900], [x |-> 1300, y |-> 100] }

InBounds(w, h) == { p \in Probes : p.x < w /\ p.y < h }

NoLoad == [job |-> 0]

\* the state of a layer's Image after its error event
LoadFailed == [job |-> 0, error |-> TRUE]

\* class Layer, constructor: a transparent buffer of the given size
NewLayer(width, height, name, id) ==
    [ id |-> id, name |-> name, visible |-> TRUE, opacity |-> 100, locked |-> FALSE,
      width |-> width, height |-> height, pix |-> {}, load |-> NoLoad ]

\* drawStroke that paints with the composite operation erase uses
drawStroke_destinationOut(layer, points) ==
    IF Len(points) < 2 THEN layer
    ELSE [layer EXCEPT !.pix = @ \ { points[i] : i \in 1..Len(points) }]

\* drawStroke that also inks a single point (a dot for a tap)
drawStroke_dot(layer, points) ==
    [layer EXCEPT !.pix = @ \cup ({ points[i] : i \in 1..Len(points) }
                                    \cap InBounds(layer.width, layer.height))]

\* drawStroke that also makes the layer visible
drawStroke_reveal(layer, points) ==
    IF Len(points) < 2 THEN layer
    ELSE [layer EXCEPT !.visible = TRUE,
                       !.pix = @ \cup ({ points[i] : i \in 1..Len(points) }
                                        \cap InBounds(layer.width, layer.height))]

\* Layer.drawStroke: fewer than 2 points draw nothing; otherwise every
\* segment is stroked source-over, which inks the probes the points lie on
drawStroke(layer, points) ==
    IF Len(points) < 2 THEN layer
    ELSE [layer EXCEPT !.pix = @ \cup ({ points[i] : i \in 1..Len(points) }
                                        \cap InBounds(layer.width, layer.height))]

\* Layer.erase: destination-out along the same segments
erase(layer, points) ==
    IF Len(points) < 2 THEN layer
    ELSE [layer EXCEPT !.pix = @ \ { points[i] : i \in 1..Len(points) }]

\* Layer.clear
clear(layer) == [layer EXCEPT !.pix = {}]

\* Layer.toDataURL: a PNG of the buffer, which encodes its dimensions
toDataURL(layer) == [width |-> layer.width, height |-> layer.height, pix |-> layer.pix]

\* img.onload of Layer.fromDataURL: clearRect, then drawImage(img, 0, 0)
\* unscaled, clipped by the layer's own buffer
onloadDraw(layer, img) ==
    [layer EXCEPT !.pix = img.pix \cap InBounds(layer.width, layer.height),
                  !.load = NoLoad]

\* resize that keeps the content outside the new bounds
resize_keep(layer, width, height) ==
    [layer EXCEPT !.width = width, !.height = height]

\* Layer.resize: getImageData, set the new size (which clears), putImageData
\* at the origin
resize(layer, width, height) ==
    [layer EXCEPT !.width = width, !.height = height,
                  !.pix = @ \cap InBounds(width, height)]

\* --------------------------------------------------------------- variables
VARIABLES
    layers,            \* LayerManager.layers, bottom to top
    activeLayerIndex,  \* LayerManager.activeLayerIndex
    canvas,            \* fabricCanvas.width / .height
    ratio,             \* aspectRatioWidget._value
    states,            \* HistoryManager.states
    currentIndex,      \* HistoryManager.currentIndex
    isRestoring,       \* HistoryManager.isRestoring
    maxStates,         \* HistoryManager.maxStates
    jobs,              \* fromJSON calls whose image loads are not all delivered
    currentTool,       \* node.currentTool
    isDrawing,         \* node.isDrawing
    currentStroke,     \* node.currentStroke
    layer_data,        \* o.layer_data written by onSerialize, <<>> when none
    canvas_data,       \* canvasDataWidget.value, the image last exported to the host
    nextId,            \* source of fresh Layer ids
    downLayer,         \* id of the layer that was active at the pointer-down of the
                       \* gesture being captured, 0 when none
    steps,             \* handler invocations so far
    lastOp,            \* the last handler invoked and what it returned
    clipped,           \* the pixels (by layer id) whose content a resize discarded
                       \* and that were not painted since
    nodes,             \* the nodes of the part_000 variant: each one's fabric
                       \* objects, HistoryManager and loadFromJSON calls
    pressures,         \* node.currentStroke[i].pressure, with the value the
                       \* pointer event carried
    fabric,            \* fabricCanvas: the images on it and the fromURL
                       \* callbacks not yet delivered
    rt                 \* the stack before the undo/redo round trip or the
                       \* deserialize under observation

vars == << layers, activeLayerIndex, canvas, ratio, states, currentIndex, isRestoring,
           maxStates, jobs, currentTool, isDrawing, currentStroke, layer_data,
           canvas_data, nextId, downLayer, steps, lastOp, clipped, nodes, pressures, fabric,
           rt >>

\* ------------------------------------------------------------ LayerManager
\* the layer stack as one value
LM == [layers |-> layers, activeLayerIndex |-> activeLayerIndex]

LayerName(n) == << "Layer", n >>

\* addLayer that puts the new layer at the bottom of the stack
addLayer_unshift(lm, width, height, name, id) ==
    LET pushed == << NewLayer(width, height, name, id) >> \o lm.layers
    IN  [layers |-> pushed, activeLayerIndex |-> Len(pushed) - 1]

\* LayerManager.addLayer
addLayer(lm, width, height, name, id) ==
    LET pushed == Append(lm.layers, NewLayer(width, height, name, id))
    IN  [layers |-> pushed, activeLayerIndex |-> Len(pushed) - 1]

\* LayerManager.getActiveLayer: undefined when the index names no element
HasActiveLayer(lm) ==
    lm.activeLayerIndex >= 0 /\ lm.activeLayerIndex < Len(lm.layers)

\* setActiveLayer whose upper bound is off by one
setActiveLayer_offByOne(lm, index) ==
    IF index >= 0 /\ index <= Len(lm.layers)
    THEN [lm EXCEPT !.activeLayerIndex = index]
    ELSE lm

\* LayerManager.setActiveLayer
setActiveLayer(lm, index) ==
    IF index >= 0 /\ index < Len(lm.layers)
    THEN [lm EXCEPT !.activeLayerIndex = index]
    ELSE lm

\* Array.prototype.splice(start, 1): a negative start counts from the end,
\* a start past the end removes nothing
splice1(seq, start) ==
    LET len == Len(seq)
        from == IF start < 0 THEN (IF len + start < 0 THEN 0 ELSE len + start)
                ELSE (IF start > len THEN len ELSE start)
    IN  IF from >= len THEN seq
        ELSE SubSeq(seq, 1, from) \o SubSeq(seq, from + 2, len)

\* deleteLayer without the one-layer guard
deleteLayer_noGuard(lm, index) ==
    LET rest == splice1(lm.layers, index)
    IN  [layers |-> rest,
         activeLayerIndex |-> IF lm.activeLayerIndex >= Len(rest)
                              THEN Len(rest) - 1
                              ELSE lm.activeLayerIndex]

\* deleteLayer that leaves the active index as it was
deleteLayer_noClamp(lm, index) ==
    IF Len(lm.layers) <= 1 THEN lm
    ELSE [lm EXCEPT !.layers = splice1(lm.layers, index)]

\* LayerManager.deleteLayer
deleteLayer(lm, index) ==
    IF Len(lm.layers) <= 1 THEN lm
    ELSE LET rest == splice1(lm.layers, index)
         IN  [layers |-> rest,
              activeLayerIndex |-> IF lm.activeLayerIndex >= Len(rest)
                                   THEN Len(rest) - 1
                                   ELSE lm.activeLayerIndex]

\* LayerManager.toggleLayerVisibility
toggleLayerVisibility(lm, index) ==
    IF index >= 0 /\ index < Len(lm.layers)
    THEN [lm EXCEPT !.layers[index + 1].visible = ~@]
    ELSE lm

\* mergeDown that replaces the lower layer's pixels by the upper layer's
mergeDown_replace(lm, index) ==
    IF index <= 0 \/ index >= Len(lm.layers) THEN lm
    ELSE deleteLayer([lm EXCEPT !.layers[index].pix =
                          lm.layers[index + 1].pix
                              \cap InBounds(lm.layers[index].width, lm.layers[index].height)],
                     index)

\* LayerManager.mergeDown: drawImage of the upper buffer onto the lower one
\* with globalAlpha = upper.opacity, then deleteLayer(index)
mergeDown(lm, index) ==
    IF index <= 0 \/ index >= Len(lm.layers) THEN lm
    ELSE LET upper == lm.layers[index + 1]
             drawn == IF upper.opacity > 0 THEN upper.pix ELSE {}
         IN  deleteLayer([lm EXCEPT !.layers[index].pix =
                              @ \cup (drawn \cap InBounds(lm.layers[index].width,
                                                          lm.layers[index].height))],
                         index)

\* LayerManager.resizeAll
\* resizeAll that resizes the active layer only
resizeAll_activeOnly(lm, width, height) ==
    [lm EXCEPT !.layers = [i \in 1..Len(lm.layers) |->
                              IF i = lm.activeLayerIndex + 1
                              THEN resize(lm.layers[i], width, height)
                              ELSE lm.layers[i]]]

resizeAll(lm, width, height) ==
    [lm EXCEPT !.layers = [i \in 1..Len(lm.layers) |-> resize(lm.layers[i], width, height)]]

\* one element of toJSON().layers
layerToJSON(layer) ==
    [ id |-> layer.id, name |-> layer.name, visible |-> layer.visible,
      opacity |-> layer.opacity, locked |-> layer.locked, data |-> toDataURL(layer) ]

\* LayerManager.toJSON (JSON.stringify and JSON.parse of this value are
\* exact: numbers, booleans and strings only)
toJSON(lm) ==
    [ layers |-> [i \in 1..Len(lm.layers) |-> layerToJSON(lm.layers[i])],
      activeLayerIndex |-> lm.activeLayerIndex ]

\* the value of one pixel of a flattened image: opaque white, no paint at all,
\* or the ink of a layer (named by the layer's id)
White == [rgb |-> "#ffffff", layer |-> 0, alpha |-> 100]
Transparent == [rgb |-> "none", layer |-> 0, alpha |-> 0]
Ink(id) == [rgb |-> "ink", layer |-> id, alpha |-> 100]

\* the pixel of a layer's own buffer at probe p
LayerPixel(layer, p) == IF p \in layer.pix THEN Ink(layer.id) ELSE Transparent

\* ctx.globalAlpha = layer.opacity; ctx.drawImage(layer.canvas, 0, 0): source-
\* over at the layer's opacity.  Ink at full opacity covers what is below, a
\* transparent source pixel or opacity 0 leaves it, anything between blends.
drawImage(image, layer) ==
    [ p \in DOMAIN image |->
        IF p \notin layer.pix \/ layer.opacity = 0 THEN image[p]
        ELSE IF layer.opacity = 100 THEN Ink(layer.id)
        ELSE [rgb |-> "blend", layer |-> layer.id, alpha |-> layer.opacity,
              below |-> image[p]] ]

\* the loop without the test of layer.visible
RECURSIVE paintLayers_ignoreVisible(_, _, _)
paintLayers_ignoreVisible(image, stack, i) ==
    IF i > Len(stack) THEN image
    ELSE paintLayers_ignoreVisible(drawImage(image, stack[i]), stack, i + 1)

\* for (const layer of layers) if (layer.visible) drawImage: the loop of
\* updateComposite and of exportCanvasWithAlpha, from layer i (1-based) up
RECURSIVE paintLayers(_, _, _)
paintLayers(image, stack, i) ==
    IF i > Len(stack) THEN image
    ELSE paintLayers(IF stack[i].visible THEN drawImage(image, stack[i]) ELSE image,
                     stack, i + 1)

\* fillStyle = '#ffffff'; fillRect over a new canvas of the given size
fillWhite(size) == [p \in InBounds(size.width, size.height) |-> White]

\* LayerManager.updateComposite: the image it hands to fabric.Image.fromURL
updateComposite(lm, size) ==
    [ width |-> size.width, height |-> size.height,
      pixel |-> paintLayers(fillWhite(size), lm.layers, 1) ]

\* exportCanvasWithAlpha: a canvas of the fabric canvas's size filled with
\* opaque white, then every visible layer drawn over it at its opacity
exportCanvasWithAlpha(lm, size) ==
    [ width |-> size.width, height |-> size.height,
      pixel |-> paintLayers(fillWhite(size), lm.layers, 1) ]

\* canvasDataWidget.value before the first export
NoExport == [width |-> 0, height |-> 0, pixel |-> << >>]

\* fromJSON that always activates the bottom layer
fromJSON_activeZero(json, width, height, job) ==
    [ layers |-> [i \in 1..Len(json.layers) |->
                    [ id |-> json.layers[i].id, name |-> json.layers[i].name,
                      visible |-> json.layers[i].visible,
                      opacity |-> json.layers[i].opacity,
                      locked |-> json.layers[i].locked,
                      width |-> width, height |-> height, pix |-> {},
                      load |-> [job |-> job, data |-> json.layers[i].data] ]],
      activeLayerIndex |-> 0 ]

\* LayerManager.fromJSON, the synchronous part: the stack is replaced by new
\* transparent layers of the current canvas size, each waiting for its image
fromJSON(json, width, height, job) ==
    [ layers |-> [i \in 1..Len(json.layers) |->
                    [ id |-> json.layers[i].id, name |-> json.layers[i].name,
                      visible |-> json.layers[i].visible,
                      opacity |-> json.layers[i].opacity,
                      locked |-> json.layers[i].locked,
                      width |-> width, height |-> height, pix |-> {},
                      load |-> [job |-> job, data |-> json.layers[i].data] ]],
      activeLayerIndex |-> IF json.activeLayerIndex = 0 THEN 0 ELSE json.activeLayerIndex ]

\* ---------------------------------------------------------- HistoryManager
HM == [ states |-> states, currentIndex |-> currentIndex,
        isRestoring |-> isRestoring, maxStates |-> maxStates ]

\* saveState with the size test off by one: one snapshot too many is kept
saveState_lateEvict(hm, state) ==
    IF hm.isRestoring THEN hm
    ELSE LET kept == IF hm.currentIndex < Len(hm.states) - 1
                     THEN SubSeq(hm.states, 1, hm.currentIndex + 1)
                     ELSE hm.states
             pushed == Append(kept, state)
         IN  IF Len(pushed) > hm.maxStates + 1
             THEN [hm EXCEPT !.states = Tail(pushed)]
             ELSE [hm EXCEPT !.states = pushed, !.currentIndex = @ + 1]

\* saveState that advances the cursor also when it evicts
saveState_alwaysAdvance(hm, state) ==
    IF hm.isRestoring THEN hm
    ELSE LET kept == IF hm.currentIndex < Len(hm.states) - 1
                     THEN SubSeq(hm.states, 1, hm.currentIndex + 1)
                     ELSE hm.states
             pushed == Append(kept, state)
         IN  IF Len(pushed) > hm.maxStates
             THEN [hm EXCEPT !.states = Tail(pushed), !.currentIndex = @ + 1]
             ELSE [hm EXCEPT !.states = pushed, !.currentIndex = @ + 1]

\* saveState that appends without dropping the redo branch
saveState_keepBranch(hm, state) ==
    IF hm.isRestoring THEN hm
    ELSE LET pushed == Append(hm.states, state)
         IN  IF Len(pushed) > hm.maxStates
             THEN [hm EXCEPT !.states = Tail(pushed)]
             ELSE [hm EXCEPT !.states = pushed, !.currentIndex = @ + 1]

\* saveState that leaves the cursor where it was
saveState_keepCursor(hm, state) ==
    IF hm.isRestoring THEN hm
    ELSE LET kept == IF hm.currentIndex < Len(hm.states) - 1
                     THEN SubSeq(hm.states, 1, hm.currentIndex + 1)
                     ELSE hm.states
             pushed == Append(kept, state)
         IN  IF Len(pushed) > hm.maxStates
             THEN [hm EXCEPT !.states = Tail(pushed)]
             ELSE [hm EXCEPT !.states = pushed]

\* saveState that puts the new snapshot first
saveState_prepend(hm, state) ==
    IF hm.isRestoring THEN hm
    ELSE LET kept == IF hm.currentIndex < Len(hm.states) - 1
                     THEN SubSeq(hm.states, 1, hm.currentIndex + 1)
                     ELSE hm.states
             pushed == << state >> \o kept
         IN  IF Len(pushed) > hm.maxStates
             THEN [hm EXCEPT !.states = Tail(pushed)]
             ELSE [hm EXCEPT !.states = pushed, !.currentIndex = @ + 1]

\* HistoryManager.saveState, given the serialized stack
saveState(hm, state) ==
    IF hm.isRestoring THEN hm
    ELSE LET kept == IF hm.currentIndex < Len(hm.states) - 1
                     THEN SubSeq(hm.states, 1, hm.currentIndex + 1)
                     ELSE hm.states
             pushed == Append(kept, state)
         IN  IF Len(pushed) > hm.maxStates
             THEN [hm EXCEPT !.states = Tail(pushed)]
             ELSE [hm EXCEPT !.states = pushed, !.currentIndex = @ + 1]

\* undo whose guard admits the earliest snapshot: at cursor 0 it restores
\* snapshot 0 again and reports an undo
undo_noFloor(hm) ==
    IF hm.currentIndex >= 0
    THEN [currentIndex |-> IF hm.currentIndex > 0 THEN hm.currentIndex - 1 ELSE 0,
          ret |-> TRUE]
    ELSE [currentIndex |-> hm.currentIndex, ret |-> FALSE]

\* HistoryManager.undo: the new cursor and the return value
undo(hm) ==
    IF hm.currentIndex > 0
    THEN [currentIndex |-> hm.currentIndex - 1, ret |-> TRUE]
    ELSE [currentIndex |-> hm.currentIndex, ret |-> FALSE]

\* HistoryManager.redo
redo(hm) ==
    IF hm.currentIndex < Len(hm.states) - 1
    THEN [currentIndex |-> hm.currentIndex + 1, ret |-> TRUE]
    ELSE [currentIndex |-> hm.currentIndex, ret |-> FALSE]

\* HistoryManager.restoreState together with the fromJSON call it makes: the
\* flag is raised, the stack replaced, and one load per layer is left pending
\* under a new job; a snapshot without layers would never call back
restoreState(hm, width, height, pending, job) ==
    LET state == hm.states[hm.currentIndex + 1]
    IN  [ lm |-> fromJSON(state, width, height, job),
          isRestoring |-> TRUE,
          jobs |-> IF Len(state.layers) = 0 THEN pending
                   ELSE (job :> [kind |-> "restore", left |-> Len(state.layers),
                                 failed |-> 0]) @@ pending ]

\* the closure passed to layer.fromDataURL by fromJSON: loadedCount++ and, at
\* totalLayers, updateComposite and the caller's callback (restoreState's
\* callback lowers isRestoring).  left is totalLayers - loadedCount, failed
\* the number of the job's images that raised an error instead of loading; a
\* job whose remaining images have all failed has no event left and is
\* dropped without its callback having run
loadCallback(pending, restoring, job) ==
    LET left == pending[job].left - 1
    IN  IF left > pending[job].failed
        THEN [ jobs |-> [pending EXCEPT ![job].left = left], isRestoring |-> restoring ]
        ELSE [ jobs |-> [k \in DOMAIN pending \ {job} |-> pending[k]],
               isRestoring |-> IF left = 0 /\ pending[job].kind = "restore"
                               THEN FALSE ELSE restoring ]

\* the error event of an image of the job: Layer.fromDataURL sets no onerror
\* handler, so nothing runs; the closure's loadedCount can no longer reach
\* totalLayers
loadError(pending, job) ==
    IF pending[job].left > pending[job].failed + 1
    THEN [pending EXCEPT ![job].failed = @ + 1]
    ELSE [k \in DOMAIN pending \ {job} |-> pending[k]]

\* a fresh job identity for a fromJSON call
NewJob == CHOOSE j \in 1..(Cardinality(DOMAIN jobs) + 1) : j \notin DOMAIN jobs

\* loads of a job whose layer is still in the stack
InStack(job) == { i \in 1..Len(layers) : layers[i].load.job = job }

\* JavaScript values: a finite number is held in quarters (q = 4 * x), so
\* that halves and quarters are exact
JSNumber(q) == [type |-> "number", q |-> q]
NaN == [type |-> "NaN"]
Infinity == [type |-> "Infinity"]
MinusInfinity == [type |-> "-Infinity"]
JSString(text) == [type |-> "string", text |-> text]
JSNull == [type |-> "null"]
JSUndefined == [type |-> "undefined"]

\* the slider value n as a JavaScript number
SliderValue(n) == JSNumber(4 * n)

\* the slider values explored by the drawing specifications, as the
\* JavaScript numbers the setter is given
RatioValues == { SliderValue(n) : n \in RatioKeys }

\* Number(string) for the strings explored: a numeric literal with optional
\* white space is parsed, the empty string is 0, anything else is NaN
StringToNumber(text) ==
    IF text = "" THEN JSNumber(0)
    ELSE IF text = "3" THEN JSNumber(12)
    ELSE IF text = "-2.5" THEN JSNumber(-10)
    ELSE IF text = " 7 " THEN JSNumber(28)
    ELSE IF text = "-6.75" THEN JSNumber(-27)
    ELSE NaN

\* Number(value)
Number(value) ==
    IF value.type = "string" THEN StringToNumber(value.text)
    ELSE IF value.type = "null" THEN JSNumber(0)
    ELSE IF value.type = "undefined" THEN NaN
    ELSE value

\* Number.isFinite on a number
isFinite(num) == num.type = "number"

\* Math.round on a finite number in quarters: floor(x + 0.5)
round(q) == (q + 2) \div 4

max(a, b) == IF a > b THEN a ELSE b

min(a, b) == IF a < b THEN a ELSE b

\* String(n) for an integer of one digit
String(n) ==
    IF n < 0 THEN << "-1", "-2", "-3", "-4", "-5", "-6", "-7", "-8", "-9" >>[0 - n]
             ELSE << "0", "1", "2", "3", "4", "5", "6", "7", "8", "9" >>[n + 1]

\* resolveAspectRatio that rounds down
resolveAspectRatio_floor(value) ==
    LET numValue == Number(value)
        clamped == IF isFinite(numValue) THEN max(-6, min(6, numValue.q \div 4)) ELSE 0
        key == String(clamped)
    IN  IF key \notin ASPECT_RATIO_KEYS
        THEN [key |-> "0", info |-> ASPECT_RATIOS("0"), value |-> 0]
        ELSE [key |-> key, info |-> ASPECT_RATIOS(key), value |-> clamped]

\* resolveAspectRatio
resolveAspectRatio(value) ==
    LET numValue == Number(value)
        clamped == IF isFinite(numValue) THEN max(-6, min(6, round(numValue.q))) ELSE 0
        key == String(clamped)
    IN  IF key \notin ASPECT_RATIO_KEYS
        THEN [key |-> "0", info |-> ASPECT_RATIOS("0"), value |-> 0]
        ELSE [key |-> key, info |-> ASPECT_RATIOS(key), value |-> clamped]

\* --------------------------------------------------------- the fabric canvas
\* new fabric.Canvas: no object on it, no image being loaded for it
NewFabric == [objects |-> << >>, pending |-> {}, calls |-> 0]

\* what LayerManager.updateComposite does to the fabric canvas:
\* fabricCanvas.clear() removes every object, and fabric.Image.fromURL starts
\* to load the new composite, which its callback will add.  A composite is
\* named by the number of the updateComposite call that produced it.
fabricUpdate(f) ==
    [objects |-> << >>, pending |-> f.pending \cup {f.calls + 1}, calls |-> f.calls + 1]

\* the callback of fabric.Image.fromURL for composite k: fabricCanvas.add(img)
fromURLCallback(f, k) ==
    [f EXCEPT !.objects = Append(@, k), !.pending = @ \ {k}]

\* ------------------------------------------------------------ pen pressure
\* the values of options.e.pressure explored: none (a MouseEvent), 0, 0.25
\* and 1.0
DevicePressures == { JSUndefined, JSNumber(0), JSNumber(1), JSNumber(4) }

\* a || 1.0
OrOne(a) == IF a.type = "number" /\ a.q # 0 THEN a ELSE JSNumber(4)

\* capture that keeps a reported pressure of 0
capturePressure_keepZero(e) == IF e.type = "number" THEN e ELSE JSNumber(4)

\* const pressure = options.e.pressure || 1.0 of mouse:down and mouse:move
capturePressure(e) == OrOne(e)

\* the values of node.pressureSensitivity explored, as the slider holds them
\* (hundredths): 0.2, 0.25, 0.5, 1.0 and 2.0
Sensitivities == { 20, 25, 50, 100, 200 }

\* the values of node.brushSize explored
BrushSizes == { 1, 2, 5, 50 }

\* the fixed-point unit of a transformed pressure: Unit stands for 1.0
Unit == 1024

\* 2 ^ n
RECURSIVE TwoToThe(_)
TwoToThe(n) == IF n = 0 THEN 1 ELSE 2 * TwoToThe(n - 1)

\* Math.pow(pressure, 1 / pressureSensitivity) for the pressures 0, 0.25 and
\* 1.0, in Units: 0.25 ^ (1 / s) is 2 ^ -(2 / s), and 2 / s is 200 over the
\* slider value
pow(pressure, sensitivity) ==
    CASE pressure.q = 4 -> Unit
      [] pressure.q = 0 -> 0
      [] pressure.q = 1 -> Unit \div TwoToThe(200 \div sensitivity)

\* strokeWidth of Layer.drawStroke for the segment p1-p2, in half Units:
\* Math.max(1, width * (pressure1 + pressure2) / 2)
strokeWidth(p1, p2, width, pressureSensitivity) ==
    max(2 * Unit, width * (pow(OrOne(p1.pressure), pressureSensitivity)
                           + pow(OrOne(p2.pressure), pressureSensitivity)))

\* width of the preview segment drawn by mouse:move, in half Units
previewWidth(p1, p2, brushSize, pressureSensitivity) ==
    max(2 * Unit, brushSize * (pow(p1.pressure, pressureSensitivity)
                               + pow(p2.pressure, pressureSensitivity)))


\* HistoryManager's default maxStates in src/unnamed/part_000
KeysMaxStates == 20

\* the live nodes of the part_000 variant
Nodes == {1, 2}

\* HistoryManager.saveState of part_000: no test of isRestoring here
fabricSaveState(hm, state) ==
    LET kept == IF hm.currentIndex < Len(hm.states) - 1
                THEN SubSeq(hm.states, 1, hm.currentIndex + 1)
                ELSE hm.states
        pushed == Append(kept, state)
    IN  IF Len(pushed) > hm.maxStates
        THEN [hm EXCEPT !.states = Tail(pushed)]
        ELSE [hm EXCEPT !.states = pushed, !.currentIndex = @ + 1]

\* HistoryManager.onCanvasModified, the listener of object:added, :modified
\* and :removed
onCanvasModified(hm, state) ==
    IF hm.isRestoring THEN hm ELSE fabricSaveState(hm, state)

\* onNodeCreated of part_000: an empty fabric canvas and a HistoryManager
\* holding its snapshot; loading are the loadFromJSON calls not yet done
NewNode ==
    [ objects |-> << >>,
      hm |-> fabricSaveState([states |-> << >>, currentIndex |-> -1,
                              isRestoring |-> FALSE, maxStates |-> KeysMaxStates], << >>),
      loading |-> << >> ]

\* HistoryManager.undo / redo with restoreState of part_000, on one node:
\* the cursor moves, the flag is raised and canvas.loadFromJSON starts
historyStep(node, u) ==
    IF u.ret
    THEN [node EXCEPT !.hm.currentIndex = u.currentIndex,
                      !.hm.isRestoring = TRUE,
                      !.loading = Append(@, node.hm.states[u.currentIndex + 1])]
    ELSE node

\* the keydown listener that initializeFabricCanvas adds to the document for
\* its node: Ctrl+Z undoes, Ctrl+Y redoes
keydown(node, key) ==
    IF key = "z" THEN historyStep(node, undo(node.hm))
    ELSE IF key = "y" THEN historyStep(node, redo(node.hm))
    ELSE node

\* ---------------------------------------------------------------- initial
RtIdle == [phase |-> "idle", before |-> << >>]

\* onNodeCreated: new LayerManager (one "Background" layer, active) and new
\* HistoryManager (one snapshot of it), createToolbar's tool state
InitLM == addLayer([layers |-> << >>, activeLayerIndex |-> -1],
                   ASPECT_RATIOS("0").width, ASPECT_RATIOS("0").height,
                   << "Background", 0 >>, 1)

Init ==
    /\ layers = InitLM.layers
    /\ activeLayerIndex = InitLM.activeLayerIndex
    /\ canvas = ASPECT_RATIOS("0")
    /\ ratio = 0
    /\ maxStates \in MaxStatesArgs
    /\ states = saveState([states |-> << >>, currentIndex |-> -1, isRestoring |-> FALSE,
                           maxStates |-> maxStates], toJSON(InitLM)).states
    /\ currentIndex = saveState([states |-> << >>, currentIndex |-> -1,
                                 isRestoring |-> FALSE, maxStates |-> maxStates],
                                toJSON(InitLM)).currentIndex
    /\ isRestoring = FALSE
    /\ jobs = << >>
    /\ currentTool = "brush"
    /\ isDrawing = FALSE
    /\ currentStroke = << >>
    /\ layer_data = << >>
    /\ canvas_data = NoExport
    /\ nextId = 2
    /\ downLayer = 0
    /\ clipped = {}
    /\ nodes = [n \in Nodes |-> NewNode]
    /\ pressures = << >>
    /\ fabric = fabricUpdate(NewFabric)
    /\ steps = 0
    /\ lastOp = [ op |-> "onNodeCreated", arg |-> 0, ret |-> "none",
                  pre |-> [currentIndex |-> -1, length |-> 0, isRestoring |-> FALSE] ]
    /\ rt = RtIdle

\* ---------------------------------------------------------------- helpers
\* a return value as recorded in lastOp
Bool(b) == IF b THEN "true" ELSE "false"

\* bookkeeping of one handler invocation: the step count and the record of the
\* call (its name, index argument, return value, and the history cursor,
\* history length and restoring flag it found)
Called(op, arg, ret) ==
    /\ steps < MaxSteps
    /\ steps' = steps + 1
    /\ lastOp' = [ op |-> op, arg |-> arg, ret |-> ret,
                   pre |-> [ currentIndex |-> currentIndex, length |-> Len(states),
                             isRestoring |-> isRestoring ] ]

SetLM(lm) ==
    /\ layers' = lm.layers
    /\ activeLayerIndex' = lm.activeLayerIndex

SetHM(hm) ==
    /\ states' = hm.states
    /\ currentIndex' = hm.currentIndex
    /\ isRestoring' = hm.isRestoring

\* historyManager.saveState() called by a handler that leaves the stack lm:
\* the snapshot, then node.updateCanvasData() unless the call returned early
SaveState(lm) ==
    /\ SetHM(saveState(HM, toJSON(lm)))
    /\ canvas_data' = IF isRestoring THEN canvas_data
                      ELSE exportCanvasWithAlpha(lm, canvas)

\* layerManager.updateComposite() called by a handler: its effect on the
\* fabric canvas
UpdateComposite == fabric' = fabricUpdate(fabric)

\* a handler that does not reach saveState
NoSaveState == UNCHANGED << states, currentIndex, isRestoring, canvas_data >>

\* the pixels of clipped that the stack does not hold painted
StillClipped(stack) ==
    { c \in clipped : \A i \in 1..Len(stack) :
                          stack[i].id = c.layer => c.pixel \notin stack[i].pix }

\* the painted pixels of the stack that a resize to width x height discards
Discarded(stack, width, height) ==
    UNION { { [layer |-> stack[i].id, pixel |-> p] :
                p \in stack[i].pix \ InBounds(width, height) } : i \in 1..Len(stack) }

\* index arguments explored: -1, every valid one, one past the end
IndexArgs == -1 .. Len(layers)

\* ---------------------------------------------------------- toolbar, panel
\* "newlayer" action button and the layer panel's "+" button
NewLayerClick ==
    /\ steps < MaxSteps
    /\ Len(layers) < MaxLayers
    /\ LET lm == addLayer(LM, canvas.width, canvas.height,
                          LayerName(Len(layers) + 1), nextId)
       IN  SetLM(lm) /\ SaveState(lm)
    /\ nextId' = nextId + 1
    /\ Called("newlayer", 0, "none")
    /\ rt' = RtIdle
    /\ UNCHANGED << canvas, ratio, maxStates, downLayer, jobs, currentTool, isDrawing,
                    currentStroke, layer_data, clipped >>
    /\ UNCHANGED << nodes, pressures >>
    /\ UpdateComposite

\* delBtn.onclick of the panel row of layer `index`
DelBtnClick(index) ==
    /\ steps < MaxSteps
    /\ IF Len(layers) > 1
       THEN LET lm == deleteLayer(LM, index)
            IN  SetLM(lm) /\ SaveState(lm)
       ELSE UNCHANGED << layers, activeLayerIndex >> /\ NoSaveState
    /\ Called("delete", index, Bool(Len(layers) > 1))
    /\ rt' = RtIdle
    /\ UNCHANGED << canvas, ratio, maxStates, downLayer, jobs, currentTool, isDrawing,
                    currentStroke, layer_data, nextId, clipped >>
    /\ UNCHANGED << nodes, pressures >>
    /\ IF Len(layers) > 1 THEN UpdateComposite ELSE UNCHANGED fabric

\* LayerManager.toggleLayerVisibility, called by visBtn.onclick with the index
\* of its panel row (which may be stale) or directly
ToggleLayerVisibility(index) ==
    /\ steps < MaxSteps
    /\ SetLM(toggleLayerVisibility(LM, index))
    /\ NoSaveState
    /\ Called("visibility", index, "none")
    /\ rt' = RtIdle
    /\ UNCHANGED << canvas, ratio, maxStates, downLayer, jobs, currentTool, isDrawing,
                    currentStroke, layer_data, nextId, clipped >>
    /\ UNCHANGED << nodes, pressures >>
    /\ IF index >= 0 /\ index < Len(layers) THEN UpdateComposite ELSE UNCHANGED fabric

\* LayerManager.setActiveLayer, called by nameSpan.onclick with the index of
\* its panel row (which may be stale) or directly
SetActiveLayer(index) ==
    /\ steps < MaxSteps
    /\ SetLM(setActiveLayer(LM, index))
    /\ NoSaveState
    /\ Called("activate", index, "none")
    /\ rt' = RtIdle
    /\ UNCHANGED << canvas, ratio, maxStates, downLayer, jobs, currentTool, isDrawing,
                    currentStroke, layer_data, nextId, clipped >>
    /\ UNCHANGED << nodes, pressures, fabric >>

\* "clear" action button
ClearClick ==
    /\ steps < MaxSteps
    /\ IF HasActiveLayer(LM)
       THEN LET lm == [LM EXCEPT !.layers[activeLayerIndex + 1] = clear(@)]
            IN  SetLM(lm) /\ SaveState(lm)
       ELSE UNCHANGED << layers, activeLayerIndex >> /\ NoSaveState
    /\ Called("clear", 0, Bool(HasActiveLayer(LM)))
    /\ rt' = RtIdle
    /\ UNCHANGED << canvas, ratio, maxStates, downLayer, jobs, currentTool, isDrawing,
                    currentStroke, layer_data, nextId, clipped >>
    /\ UNCHANGED << nodes, pressures >>
    /\ IF HasActiveLayer(LM) THEN UpdateComposite ELSE UNCHANGED fabric

\* tool button onclick
ToolClick(tool) ==
    /\ steps < MaxSteps
    /\ currentTool' = tool
    /\ NoSaveState
    /\ Called("tool", 0, tool)
    /\ rt' = RtIdle
    /\ UNCHANGED << layers, activeLayerIndex, canvas, ratio, maxStates, downLayer, jobs,
                    isDrawing, currentStroke, layer_data, nextId, clipped >>
    /\ UNCHANGED << nodes, pressures, fabric >>

\* "undo" action button
UndoClick ==
    /\ steps < MaxSteps
    /\ LET u == undo(HM)
       IN  /\ IF u.ret
              THEN LET r == restoreState([HM EXCEPT !.currentIndex = u.currentIndex],
                                         canvas.width, canvas.height, jobs, NewJob)
                   IN  /\ SetLM(r.lm)
                       /\ isRestoring' = r.isRestoring
                       /\ jobs' = r.jobs
              ELSE UNCHANGED << layers, activeLayerIndex, isRestoring, jobs >>
           /\ currentIndex' = u.currentIndex
           /\ Called("undo", 0, Bool(u.ret))
           /\ rt' = IF u.ret /\ DOMAIN jobs = {}
                    THEN [phase |-> "undone", before |-> LM]
                    ELSE RtIdle
    /\ UNCHANGED << canvas, ratio, states, canvas_data, maxStates, downLayer, currentTool,
                    isDrawing, currentStroke, layer_data, nextId, clipped >>
    /\ UNCHANGED << nodes, pressures, fabric >>

\* "redo" action button
RedoClick ==
    /\ steps < MaxSteps
    /\ LET u == redo(HM)
       IN  /\ IF u.ret
              THEN LET r == restoreState([HM EXCEPT !.currentIndex = u.currentIndex],
                                         canvas.width, canvas.height, jobs, NewJob)
                   IN  /\ SetLM(r.lm)
                       /\ isRestoring' = r.isRestoring
                       /\ jobs' = r.jobs
              ELSE UNCHANGED << layers, activeLayerIndex, isRestoring, jobs >>
           /\ currentIndex' = u.currentIndex
           /\ Called("redo", 0, Bool(u.ret))
           /\ rt' = IF u.ret /\ DOMAIN jobs = {} /\ rt.phase = "undone"
                    THEN [rt EXCEPT !.phase = "redone"]
                    ELSE RtIdle
    /\ UNCHANGED << canvas, ratio, states, canvas_data, maxStates, downLayer, currentTool,
                    isDrawing, currentStroke, layer_data, nextId, clipped >>
    /\ UNCHANGED << nodes, pressures, fabric >>

\* img.onload of addImageToCanvas ("loadimage" button, initial image): the
\* image is drawn over the active layer's content; img is the set of probes
\* its scaled, centered copy inks
AddImageLoaded(img) ==
    /\ steps < MaxSteps
    /\ IF HasActiveLayer(LM)
       THEN LET lm == [LM EXCEPT !.layers[activeLayerIndex + 1].pix = @ \cup img]
            IN  SetLM(lm) /\ SaveState(lm)
       ELSE UNCHANGED << layers, activeLayerIndex >> /\ NoSaveState
    /\ Called("addImage", 0, Bool(HasActiveLayer(LM)))
    /\ rt' = RtIdle
    /\ UNCHANGED << canvas, ratio, maxStates, downLayer, jobs, currentTool, isDrawing,
                    currentStroke, layer_data, nextId >>
    /\ clipped' = StillClipped(layers')
    /\ UNCHANGED << nodes, pressures >>
    /\ IF HasActiveLayer(LM) THEN UpdateComposite ELSE UNCHANGED fabric

\* img.onload of the "cbcanvas_get_image" listener: the active layer is
\* cleared and the host's image drawn into it
HostImageLoaded(img) ==
    /\ steps < MaxSteps
    /\ IF HasActiveLayer(LM)
       THEN LET lm == [LM EXCEPT !.layers[activeLayerIndex + 1].pix = img]
            IN  SetLM(lm) /\ SaveState(lm)
       ELSE UNCHANGED << layers, activeLayerIndex >> /\ NoSaveState
    /\ Called("hostImage", 0, Bool(HasActiveLayer(LM)))
    /\ rt' = RtIdle
    /\ UNCHANGED << canvas, ratio, maxStates, downLayer, jobs, currentTool, isDrawing,
                    currentStroke, layer_data, nextId >>
    /\ clipped' = StillClipped(layers')
    /\ UNCHANGED << nodes, pressures >>
    /\ IF HasActiveLayer(LM) THEN UpdateComposite ELSE UNCHANGED fabric

\* ----------------------------------------------------------------- pointer
\* the guard without the test of the tool
CanStartStroke_anyTool ==
    /\ HasActiveLayer(LM)
    /\ ~layers[activeLayerIndex + 1].locked

\* the guard of mouse:down: a drawing tool and an unlocked active layer
CanStartStroke ==
    /\ currentTool # "select"
    /\ HasActiveLayer(LM)
    /\ ~layers[activeLayerIndex + 1].locked

\* canvas.on('mouse:down')
MouseDown(p, e) ==
    /\ steps < MaxSteps
    /\ IF CanStartStroke
       THEN /\ isDrawing' = TRUE
            /\ currentStroke' = << p >>
            /\ pressures' = << [pressure |-> capturePressure(e), device |-> e] >>
            /\ downLayer' = layers[activeLayerIndex + 1].id
       ELSE UNCHANGED << isDrawing, currentStroke, pressures, downLayer >>
    /\ NoSaveState
    /\ Called("mousedown", 0, Bool(CanStartStroke))
    /\ rt' = RtIdle
    /\ UNCHANGED << layers, activeLayerIndex, canvas, ratio, maxStates, jobs,
                    currentTool, layer_data, nextId, clipped >>
    /\ UNCHANGED << nodes, fabric >>

\* canvas.on('mouse:move'): it returns at once unless a gesture is being
\* captured, and then appends the sample (the preview it draws on the display
\* canvas is not part of the layer stack).  Moves are bounded by MaxSamples
\* and are not counted in steps.
MouseMove(p, e) ==
    /\ isDrawing
    /\ Len(currentStroke) < MaxSamples
    /\ currentStroke' = Append(currentStroke, p)
    /\ pressures' = Append(pressures, [pressure |-> capturePressure(e), device |-> e])
    /\ NoSaveState
    /\ rt' = RtIdle
    /\ UNCHANGED << layers, activeLayerIndex, canvas, ratio, maxStates, downLayer, jobs,
                    currentTool, isDrawing, layer_data, nextId, steps, lastOp, clipped >>
    /\ UNCHANGED << nodes, fabric >>

\* canvas.on('mouse:up')
MouseUp ==
    /\ steps < MaxSteps
    /\ IF ~isDrawing
       THEN /\ UNCHANGED << layers, activeLayerIndex, isDrawing, currentStroke, downLayer,
                            pressures, fabric >>
            /\ NoSaveState
            /\ Called("mouseup", 0, "ignored")
       ELSE /\ isDrawing' = FALSE
            /\ downLayer' = 0
            /\ IF ~HasActiveLayer(LM) \/ Len(currentStroke) < 2
               THEN /\ UNCHANGED << layers, activeLayerIndex, currentStroke, pressures,
                                    fabric >>
                    /\ NoSaveState
                    /\ Called("mouseup", 0, "discarded")
               ELSE LET lm == [LM EXCEPT !.layers[activeLayerIndex + 1] =
                                   IF currentTool = "brush"
                                   THEN drawStroke(@, currentStroke)
                                   ELSE IF currentTool = "eraser"
                                   THEN erase(@, currentStroke)
                                   ELSE @]
                    IN  /\ SetLM(lm)
                        /\ UpdateComposite
                        /\ SaveState(lm)
                        /\ currentStroke' = << >>
                        /\ pressures' = << >>
                        /\ Called("mouseup", 0, "committed")
    /\ rt' = RtIdle
    /\ UNCHANGED << canvas, ratio, maxStates, jobs, currentTool, layer_data, nextId >>
    /\ clipped' = StillClipped(layers')
    /\ UNCHANGED nodes

\* ------------------------------------------------------------------ resize
\* resizeCanvas: resizeAll, then the fabric canvas takes the new size
resizeCanvas(lm, width, height) ==
    [lm |-> resizeAll(lm, width, height), canvas |-> [width |-> width, height |-> height]]

\* the value setter installed on the aspect-ratio slider, for a widget that
\* has no callback (this._original_callback is undefined)
SliderSet(v) ==
    /\ steps < MaxSteps
    /\ LET resolved == resolveAspectRatio(v)
       IN  /\ ratio' = resolved.value
           /\ IF ratio # resolved.value
              THEN LET r == resizeCanvas(LM, resolved.info.width, resolved.info.height)
                   IN  /\ SetLM(r.lm)
                       /\ canvas' = r.canvas
                       /\ clipped' = clipped \cup Discarded(layers, resolved.info.width,
                                                            resolved.info.height)
              ELSE UNCHANGED << layers, activeLayerIndex, canvas, clipped >>
           /\ Called("slider", v, Bool(ratio # resolved.value))
    /\ NoSaveState
    /\ rt' = RtIdle
    /\ UNCHANGED << maxStates, downLayer, jobs, currentTool, isDrawing, currentStroke, layer_data,
                    nextId >>
    /\ UNCHANGED << nodes, pressures >>
    /\ IF ratio # resolveAspectRatio(v).value THEN UpdateComposite ELSE UNCHANGED fabric

\* the values of aspectRatioWidget.callback explored: a function that leaves
\* the slider alone, and functions that assign widget.value again
Callbacks ==
    { [type |-> "function", assigns |-> << >>] }
    \cup { [type |-> "function", assigns |-> << SliderValue(x) >>] : x \in RatioKeys }

\* the widget and what its setter acts on, as one value; log has one entry
\* per run of the setter
Widget ==
    [ _value |-> ratio, _cbcanvas_invoking |-> FALSE, lm |-> LM, canvas |-> canvas,
      clipped |-> clipped, fabric |-> fabric, log |-> << >> ]

RECURSIVE set(_, _, _)

\* the setter without the comparison of the old and the new value: every
\* assignment resizes
set_always(w, v, callback) ==
    LET resolved == resolveAspectRatio(v)
        r == resizeCanvas(w.lm, resolved.info.width, resolved.info.height)
        entry == [ assigned |-> v, stored |-> w._value, resolved |-> resolved.value,
                   resizes |-> 1,
                   invoked |-> IF ~w._cbcanvas_invoking THEN 1 ELSE 0 ]
        w1 == [w EXCEPT !._value = resolved.value, !.lm = r.lm, !.canvas = r.canvas,
                        !.clipped = @ \cup Discarded(w.lm.layers, resolved.info.width,
                                                     resolved.info.height),
                        !.fabric = fabricUpdate(@),
                        !.log = Append(@, entry)]
    IN  IF ~w1._cbcanvas_invoking
        THEN LET w2 == [w1 EXCEPT !._cbcanvas_invoking = TRUE]
                 w3 == IF callback.assigns = << >> THEN w2
                       ELSE set(w2, callback.assigns[1], callback)
             IN  [w3 EXCEPT !._cbcanvas_invoking = FALSE]
        ELSE w1

\* set: function(v) of the property installed on the slider, for a widget
\* whose _original_callback is the function `callback`: resolve, store,
\* resizeCanvas if the value changed, then the callback unless the setter is
\* already inside it (the callback's own assignment runs the setter again)
set(w, v, callback) ==
    LET resolved == resolveAspectRatio(v)
        changed == w._value # resolved.value
        r == resizeCanvas(w.lm, resolved.info.width, resolved.info.height)
        entry == [ assigned |-> v, stored |-> w._value, resolved |-> resolved.value,
                   resizes |-> IF changed THEN 1 ELSE 0,
                   invoked |-> IF ~w._cbcanvas_invoking THEN 1 ELSE 0 ]
        w1 == IF changed
              THEN [w EXCEPT !._value = resolved.value, !.lm = r.lm, !.canvas = r.canvas,
                             !.clipped = @ \cup Discarded(w.lm.layers, resolved.info.width,
                                                          resolved.info.height),
                             !.fabric = fabricUpdate(@),
                             !.log = Append(@, entry)]
              ELSE [w EXCEPT !._value = resolved.value, !.log = Append(@, entry)]
    IN  IF ~w1._cbcanvas_invoking
        THEN LET w2 == [w1 EXCEPT !._cbcanvas_invoking = TRUE]
                 w3 == IF callback.assigns = << >> THEN w2
                       ELSE set(w2, callback.assigns[1], callback)
             IN  [w3 EXCEPT !._cbcanvas_invoking = FALSE]
        ELSE w1

\* an assignment to the slider of a widget that has a callback
SliderSetCallback(v, callback) ==
    /\ steps < MaxSteps
    /\ LET w == set(Widget, v, callback)
       IN  /\ ratio' = w._value
           /\ SetLM(w.lm)
           /\ canvas' = w.canvas
           /\ clipped' = w.clipped
           /\ fabric' = w.fabric
           /\ steps' = steps + 1
           /\ lastOp' = [ op |-> "sliderCallback", arg |-> v, ret |-> "none",
                          pre |-> [ currentIndex |-> currentIndex, length |-> Len(states),
                                    isRestoring |-> isRestoring ],
                          callback |-> callback, log |-> w.log ]
    /\ NoSaveState
    /\ rt' = RtIdle
    /\ UNCHANGED << maxStates, downLayer, jobs, currentTool, isDrawing, currentStroke, layer_data,
                    nextId >>
    /\ UNCHANGED << nodes, pressures >>

\* ------------------------------------------------------- host serialization
\* onSerialize: o.layer_data = JSON.stringify(layerManager.toJSON())
OnSerialize ==
    /\ steps < MaxSteps
    /\ layer_data' = toJSON(LM)
    /\ NoSaveState
    /\ Called("serialize", 0, "none")
    /\ rt' = RtIdle
    /\ UNCHANGED << layers, activeLayerIndex, canvas, ratio, maxStates, downLayer, jobs,
                    currentTool, isDrawing, currentStroke, nextId, clipped >>
    /\ UNCHANGED << nodes, pressures, fabric >>

\* onConfigure with the blob of an earlier onSerialize
OnConfigure ==
    /\ steps < MaxSteps
    /\ IF layer_data # << >>
       THEN /\ SetLM(fromJSON(layer_data, canvas.width, canvas.height, NewJob))
            /\ jobs' = IF Len(layer_data.layers) = 0 THEN jobs
                       ELSE (NewJob :> [kind |-> "configure",
                                        left |-> Len(layer_data.layers),
                                        failed |-> 0]) @@ jobs
            /\ rt' = [phase |-> "configured", before |-> LM]
       ELSE /\ UNCHANGED << layers, activeLayerIndex, jobs >>
            /\ rt' = RtIdle
    /\ NoSaveState
    /\ Called("configure", 0, Bool(layer_data # << >>))
    /\ UNCHANGED << canvas, ratio, maxStates, downLayer, currentTool, isDrawing, currentStroke,
                    layer_data, nextId, clipped >>
    /\ UNCHANGED << nodes, pressures, fabric >>

\* onConfigure with the blob of an earlier onSerialize in which the workflow
\* file marks layer i (1-based) locked; no handler of the node sets the flag,
\* fromJSON copies it from the blob
OnConfigureLocked(i) ==
    /\ steps < MaxSteps
    /\ layer_data # << >>
    /\ i \in 1..Len(layer_data.layers)
    /\ LET o == [layer_data EXCEPT !.layers[i].locked = TRUE]
       IN  /\ SetLM(fromJSON(o, canvas.width, canvas.height, NewJob))
           /\ jobs' = (NewJob :> [kind |-> "configure", left |-> Len(o.layers),
                                  failed |-> 0]) @@ jobs
    /\ rt' = RtIdle
    /\ NoSaveState
    /\ Called("configureLocked", i, "true")
    /\ UNCHANGED << canvas, ratio, maxStates, downLayer, currentTool, isDrawing, currentStroke,
                    layer_data, nextId, clipped >>
    /\ UNCHANGED << nodes, pressures, fabric >>

\* ------------------------------------------------------------- image loads
\* img.onload of a layer that is still in the stack
ImageLoaded(i) ==
    /\ i \in 1..Len(layers)
    /\ layers[i].load.job # 0
    /\ layers' = [layers EXCEPT ![i] = onloadDraw(@, @.load.data)]
    /\ LET d == loadCallback(jobs, isRestoring, layers[i].load.job)
       IN  /\ jobs' = d.jobs
           /\ isRestoring' = d.isRestoring
    /\ UNCHANGED << activeLayerIndex, canvas, ratio, states, currentIndex, canvas_data,
                    maxStates, downLayer, currentTool, isDrawing, currentStroke, layer_data,
                    nextId, steps, lastOp, rt, clipped >>
    /\ UNCHANGED << nodes, pressures >>
    /\ IF jobs[layers[i].load.job].left = 1 THEN UpdateComposite ELSE UNCHANGED fabric

\* the image of a layer that onConfigure is loading fails to decode (the
\* blob comes from the workflow file, whose rasters may be damaged; the
\* snapshots of the history are PNGs this session encoded)
ImageError(i) ==
    /\ i \in 1..Len(layers)
    /\ layers[i].load.job # 0
    /\ jobs[layers[i].load.job].kind = "configure"
    /\ layers' = [layers EXCEPT ![i].load = LoadFailed]
    /\ jobs' = loadError(jobs, layers[i].load.job)
    /\ UNCHANGED << activeLayerIndex, canvas, ratio, states, currentIndex, isRestoring,
                    canvas_data, maxStates, downLayer, currentTool, isDrawing,
                    currentStroke, layer_data, nextId, steps, lastOp, rt, clipped >>
    /\ UNCHANGED << nodes, pressures, fabric >>

\* the image of a layer that undo or redo is restoring fails to load: the
\* error event finds no handler, the closure of fromJSON never counts it
SnapshotImageError(i) ==
    /\ i \in 1..Len(layers)
    /\ layers[i].load.job # 0
    /\ jobs[layers[i].load.job].kind = "restore"
    /\ layers' = [layers EXCEPT ![i].load = LoadFailed]
    /\ jobs' = loadError(jobs, layers[i].load.job)
    /\ UNCHANGED << activeLayerIndex, canvas, ratio, states, currentIndex, isRestoring,
                    canvas_data, maxStates, downLayer, currentTool, isDrawing,
                    currentStroke, layer_data, nextId, steps, lastOp, rt, clipped >>
    /\ UNCHANGED << nodes, pressures, fabric >>

\* img.onload of a layer that a later fromJSON, deleteLayer or mergeDown has
\* removed from the stack: it draws into a buffer nobody reads
OrphanImageLoaded(job) ==
    /\ job \in DOMAIN jobs
    /\ jobs[job].left - jobs[job].failed > Cardinality(InStack(job))
    /\ LET d == loadCallback(jobs, isRestoring, job)
       IN  /\ jobs' = d.jobs
           /\ isRestoring' = d.isRestoring
    /\ UNCHANGED << layers, activeLayerIndex, canvas, ratio, states, currentIndex,
                    canvas_data, maxStates, downLayer, currentTool, isDrawing, currentStroke,
                    layer_data, nextId, steps, lastOp, rt, clipped >>
    /\ UNCHANGED << nodes, pressures >>
    /\ IF jobs[job].left = 1 THEN UpdateComposite ELSE UNCHANGED fabric

\* the callback that updateComposite passed to fabric.Image.fromURL runs for
\* composite k: the image is added to the fabric canvas and rendered
CompositeLoaded(k) ==
    /\ k \in fabric.pending
    /\ fabric' = fromURLCallback(fabric, k)
    /\ UNCHANGED << layers, activeLayerIndex, canvas, ratio, states, currentIndex,
                    isRestoring, maxStates, jobs, currentTool, isDrawing, currentStroke,
                    layer_data, canvas_data, nextId, downLayer, clipped, nodes, pressures,
                    steps, lastOp, rt >>

\* ------------------------------------------- LayerManager called directly
CallDeleteLayer(index) ==
    /\ steps < MaxSteps
    /\ SetLM(deleteLayer(LM, index))
    /\ NoSaveState
    /\ Called("deleteLayer", index, "none")
    /\ rt' = RtIdle
    /\ UNCHANGED << canvas, ratio, maxStates, downLayer, jobs, currentTool, isDrawing,
                    currentStroke, layer_data, nextId, clipped >>
    /\ UNCHANGED << nodes, pressures >>
    /\ IF Len(layers) > 1 THEN UpdateComposite ELSE UNCHANGED fabric

CallMergeDown(index) ==
    /\ steps < MaxSteps
    /\ SetLM(mergeDown(LM, index))
    /\ NoSaveState
    /\ Called("mergeDown", index, "none")
    /\ rt' = RtIdle
    /\ UNCHANGED << canvas, ratio, maxStates, downLayer, jobs, currentTool, isDrawing,
                    currentStroke, layer_data, nextId >>
    /\ clipped' = StillClipped(layers')
    /\ UNCHANGED << nodes, pressures >>
    /\ IF index > 0 /\ index < Len(layers) THEN UpdateComposite ELSE UNCHANGED fabric

\* --------------------------------------- the variant of src/unnamed/part_000
\* The earlier variant of the extension kept in src/unnamed/part_000 draws
\* fabric objects on one fabric canvas per node; its HistoryManager snapshots
\* the canvas's objects, and initializeFabricCanvas adds keyboard shortcuts.

\* free drawing on node n's canvas adds a path: object:added
PathCreated(n) ==
    /\ steps < MaxSteps
    /\ LET objects == Append(nodes[n].objects, steps + 1)
       IN  nodes' = [nodes EXCEPT ![n].objects = objects,
                                  ![n].hm = onCanvasModified(@, objects)]
    /\ Called("pathCreated", n, "none")
    /\ UNCHANGED << layers, activeLayerIndex, canvas, ratio, states, currentIndex,
                    isRestoring, maxStates, jobs, currentTool, isDrawing, currentStroke,
                    layer_data, canvas_data, nextId, downLayer, clipped, pressures, fabric, rt >>

\* the "undo" and "redo" buttons of node n's toolbar
ActionClick(n, key) ==
    /\ steps < MaxSteps
    /\ nodes' = [nodes EXCEPT ![n] = keydown(@, key)]
    /\ Called("action", n, key)
    /\ UNCHANGED << layers, activeLayerIndex, canvas, ratio, states, currentIndex,
                    isRestoring, maxStates, jobs, currentTool, isDrawing, currentStroke,
                    layer_data, canvas_data, nextId, downLayer, clipped, pressures, fabric, rt >>

\* a keydown event of the document while the user works on node n: the
\* listener of every node runs
KeyDown(n, key) ==
    /\ steps < MaxSteps
    /\ nodes' = [m \in DOMAIN nodes |-> keydown(nodes[m], key)]
    /\ Called("keydown", n, key)
    /\ UNCHANGED << layers, activeLayerIndex, canvas, ratio, states, currentIndex,
                    isRestoring, maxStates, jobs, currentTool, isDrawing, currentStroke,
                    layer_data, canvas_data, nextId, downLayer, clipped, pressures, fabric, rt >>

\* the callback of canvas.loadFromJSON of node n: the objects of the snapshot
\* are on the canvas (object:added found isRestoring set) and the flag drops
LoadFromJSONDone(n) ==
    /\ nodes[n].loading # << >>
    /\ nodes' = [nodes EXCEPT ![n].objects = Head(nodes[n].loading),
                              ![n].loading = Tail(@),
                              ![n].hm.isRestoring = FALSE]
    /\ UNCHANGED << layers, activeLayerIndex, canvas, ratio, states, currentIndex,
                    isRestoring, maxStates, jobs, currentTool, isDrawing, currentStroke,
                    layer_data, canvas_data, nextId, downLayer, clipped, pressures, fabric,
                    steps, lastOp, rt >>

\* ------------------------------------------------------------ specification
Tools == { "brush", "eraser", "select" }

\* the images explored: one that inks the probe inside every canvas size
Images == { { [x |-> 100, y |-> 100] } }

\* the pointer positions explored: the probes that the explored images leave
\* transparent, as far as they lie on the canvas
Pointers == { p \in InBounds(canvas.width, canvas.height) : \A img \in Images : p \notin img }

\* the handlers the user interface and the host can invoke
NextUI ==
    \/ NewLayerClick
    \/ \E index \in 0..(Len(layers) - 1) : DelBtnClick(index)
    \/ \E index \in IndexArgs : ToggleLayerVisibility(index)
    \/ \E index \in IndexArgs : SetActiveLayer(index)
    \/ ClearClick
    \/ \E tool \in Tools : ToolClick(tool)
    \/ UndoClick
    \/ RedoClick
    \/ \E img \in Images : AddImageLoaded(img)
    \/ \E img \in Images : HostImageLoaded(img)
    \/ \E p \in Pointers : MouseDown(p, JSUndefined)
    \/ \E p \in Pointers : MouseMove(p, JSUndefined)
    \/ MouseUp
    \/ \E v \in RatioValues : SliderSet(v)
    \/ OnSerialize
    \/ OnConfigure
    \/ \E i \in 1..Len(layers) : ImageLoaded(i)
    \/ \E i \in 1..Len(layers) : ImageError(i)
    \/ \E job \in DOMAIN jobs : OrphanImageLoaded(job)

\* the methods of LayerManager called with any index
NextAPI ==
    \/ \E index \in IndexArgs : CallDeleteLayer(index)
    \/ \E index \in IndexArgs : CallMergeDown(index)

Next == NextUI \/ NextAPI

Spec == Init /\ [][Next]_vars

SpecUI == Init /\ [][NextUI]_vars

\* the handlers that shape the stack (layers, visibility, active layer, ink,
\* size) and the host's serialization and deserialization of it
NextSerialize ==
    \/ NewLayerClick
    \/ \E index \in 0..(Len(layers) - 1) : DelBtnClick(index)
    \/ \E index \in IndexArgs : ToggleLayerVisibility(index)
    \/ \E index \in IndexArgs : SetActiveLayer(index)
    \/ \E img \in Images : HostImageLoaded(img)
    \/ \E v \in RatioValues : SliderSet(v)
    \/ OnSerialize
    \/ OnConfigure
    \/ \E i \in 1..Len(layers) : ImageLoaded(i)
    \/ \E i \in 1..Len(layers) : ImageError(i)
    \/ \E job \in DOMAIN jobs : OrphanImageLoaded(job)

SpecSerialize == Init /\ [][NextSerialize]_vars

\* the image explored by SpecResize: it inks every probe of the initial canvas
TallImage == InBounds(ASPECT_RATIOS("0").width, ASPECT_RATIOS("0").height)

\* the stack after onNodeCreated and one "loadimage" of TallImage
ImageLM == [InitLM EXCEPT !.layers[1].pix = TallImage]

\* the node after onNodeCreated and one "loadimage" of TallImage: the image
\* is on the Background layer, snapshotted and exported
InitAfterImage ==
    /\ layers = ImageLM.layers
    /\ activeLayerIndex = ImageLM.activeLayerIndex
    /\ canvas = ASPECT_RATIOS("0")
    /\ ratio = 0
    /\ maxStates \in MaxStatesArgs
    /\ LET hm == saveState(saveState([states |-> << >>, currentIndex |-> -1,
                                      isRestoring |-> FALSE, maxStates |-> maxStates],
                                     toJSON(InitLM)),
                           toJSON(ImageLM))
       IN  states = hm.states /\ currentIndex = hm.currentIndex
    /\ isRestoring = FALSE
    /\ jobs = << >>
    /\ currentTool = "brush"
    /\ isDrawing = FALSE
    /\ currentStroke = << >>
    /\ layer_data = << >>
    /\ canvas_data = exportCanvasWithAlpha(ImageLM, ASPECT_RATIOS("0"))
    /\ nextId = 2
    /\ downLayer = 0
    /\ clipped = {}
    /\ nodes = [n \in Nodes |-> NewNode]
    /\ pressures = << >>
    /\ fabric = fabricUpdate(fabricUpdate(NewFabric))
    /\ steps = 0
    /\ lastOp = [ op |-> "addImage", arg |-> 0, ret |-> "true",
                  pre |-> [currentIndex |-> 0, length |-> 1, isRestoring |-> FALSE] ]
    /\ rt = RtIdle

\* resize, undo and redo, and the image loads of the restorations
NextResize ==
    \/ \E v \in RatioValues : SliderSet(v)
    \/ UndoClick
    \/ RedoClick
    \/ \E i \in 1..Len(layers) : ImageLoaded(i)
    \/ \E job \in DOMAIN jobs : OrphanImageLoaded(job)

\* the resize and history handlers of a node that holds an image
SpecResize == InitAfterImage /\ [][NextResize]_vars

\* the finite numbers explored as slider input, in quarters: -7.5 .. 7.5
MaxQuarters == 30

\* the values the slider's setter is given: numbers (in range, fractional,
\* out of range, not finite), strings, null and undefined
SliderInputs ==
    { JSNumber(q) : q \in -MaxQuarters .. MaxQuarters }
    \cup { NaN, Infinity, MinusInfinity, JSNull, JSUndefined }
    \cup { JSString(text) : text \in {"", "3", "-2.5", " 7 ", "-6.75", "abc", "16:9"} }

\* the slider set to any value
NextRatio == \E v \in SliderInputs : SliderSet(v)

SpecRatio == Init /\ [][NextRatio]_vars

\* the handlers of the nodes of the part_000 variant
NextKeys ==
    \/ \E n \in Nodes : PathCreated(n)
    \/ \E n \in Nodes, key \in {"z", "y"} : ActionClick(n, key)
    \/ \E n \in Nodes, key \in {"z", "y", "a"} : KeyDown(n, key)
    \/ \E n \in Nodes : LoadFromJSONDone(n)

SpecKeys == Init /\ [][NextKeys]_vars

\* the pointer handlers driven by a pen: every sample carries one of the
\* device pressures
NextPressure ==
    \/ \E p \in Pointers, e \in DevicePressures : MouseDown(p, e)
    \/ \E p \in Pointers, e \in DevicePressures : MouseMove(p, e)
    \/ MouseUp

SpecPressure == Init /\ [][NextPressure]_vars

\* the history handlers, with restorations whose images load or fail
NextRestore ==
    \/ NewLayerClick
    \/ ClearClick
    \/ UndoClick
    \/ RedoClick
    \/ \E i \in 1..Len(layers) : ImageLoaded(i)
    \/ \E i \in 1..Len(layers) : SnapshotImageError(i)
    \/ \E job \in DOMAIN jobs : OrphanImageLoaded(job)

SpecRestore == Init /\ [][NextRestore]_vars

\* a node configured from a workflow with a locked layer, and the operations
\* that write pixels
NextLocked ==
    \/ NewLayerClick
    \/ \E index \in IndexArgs : SetActiveLayer(index)
    \/ ClearClick
    \/ \E img \in Images : AddImageLoaded(img)
    \/ \E img \in Images : HostImageLoaded(img)
    \/ \E p \in Pointers : MouseDown(p, JSUndefined)
    \/ \E p \in Pointers : MouseMove(p, JSUndefined)
    \/ MouseUp
    \/ \E index \in IndexArgs : CallMergeDown(index)
    \/ OnSerialize
    \/ \E i \in 1..Len(layers) : OnConfigureLocked(i)
    \/ \E i \in 1..Len(layers) : ImageLoaded(i)
    \/ \E job \in DOMAIN jobs : OrphanImageLoaded(job)

SpecLocked == Init /\ [][NextLocked]_vars

\* handlers that recomposite (layer operations, resize, the end of a
\* restoration) and the delivery of the composites to the fabric canvas
NextComposite ==
    \/ NewLayerClick
    \/ \E index \in IndexArgs : ToggleLayerVisibility(index)
    \/ \E v \in RatioValues : SliderSet(v)
    \/ UndoClick
    \/ \E i \in 1..Len(layers) : ImageLoaded(i)
    \/ \E k \in fabric.pending : CompositeLoaded(k)

SpecComposite == Init /\ [][NextComposite]_vars

\* the slider assigned on a node that holds an image, by a widget without
\* and with a callback
NextSlider ==
    \/ \E v \in RatioValues : SliderSet(v)
    \/ \E v \in RatioValues, callback \in Callbacks : SliderSetCallback(v, callback)
    \/ \E img \in Images : AddImageLoaded(img)

SpecSlider == Init /\ [][NextSlider]_vars

\* ================================================================= claims
\* a handler ran in this step (image-load callbacks do not count as handlers)
HandlerStep == steps' = steps + 1

\* the handler of this step reached historyManager.saveState()
SaveStateCalled ==
    /\ HandlerStep
    /\ \/ lastOp'.op = "newlayer"
       \/ lastOp'.op \in {"delete", "clear", "addImage", "hostImage"} /\ lastOp'.ret = "true"
       \/ lastOp'.op = "mouseup" /\ lastOp'.ret = "committed"

\* the same, of the handler that led to the current state
SaveStateWasCalled ==
    \/ lastOp.op = "newlayer"
    \/ lastOp.op \in {"delete", "clear", "addImage", "hostImage"} /\ lastOp.ret = "true"
    \/ lastOp.op = "mouseup" /\ lastOp.ret = "committed"

\* C1: the history never holds more than maxStates snapshots, and a saveState
\* that would exceed the bound removes the oldest snapshot (index 0) and no
\* other: the result is the old sequence without its first element, followed
\* by the new snapshot.
C1_HistoryBounded ==
    /\ [](Len(states) <= maxStates)
    /\ [][ ( /\ SaveStateCalled
             /\ ~isRestoring
             /\ currentIndex = Len(states) - 1
             /\ Len(states) = maxStates )
           => states' = Tail(states) \o << toJSON(LM') >> ]_vars

\* C1 witness: a saveState at capacity has evicted the initial snapshot
C1_Witness ==
    /\ SaveStateWasCalled
    /\ ~lastOp.pre.isRestoring
    /\ lastOp.pre.length = maxStates
    /\ lastOp.pre.currentIndex = maxStates - 1
    /\ maxStates = 2
    /\ states[1] # toJSON(InitLM)

\* C2: the cursor always names a snapshot, 0 <= currentIndex <= length - 1,
\* and the snapshot sequence is never empty.
C2_CursorValid ==
    /\ Len(states) >= 1
    /\ 0 <= currentIndex
    /\ currentIndex <= Len(states) - 1

\* C2 witness: a saveState at capacity (maxStates = 1) has just run and the
\* cursor is still at the only snapshot
C2_Witness ==
    /\ SaveStateWasCalled
    /\ ~lastOp.pre.isRestoring
    /\ maxStates = 1
    /\ lastOp.pre.length = 1
    /\ currentIndex = 0
    /\ states[1] # toJSON(InitLM)

\* C3: saveState with the cursor at k < last index and no restoration in
\* progress leaves exactly the old snapshots 0..k followed by the new one
\* (minus an evicted oldest one if that exceeds the bound); every snapshot
\* after k is gone, and redo then returns false.
C3_BranchTruncated ==
    [][ ( /\ SaveStateCalled
          /\ ~isRestoring
          /\ currentIndex < Len(states) - 1 )
        => LET kept == SubSeq(states, 1, currentIndex + 1) \o << toJSON(LM') >>
           IN  /\ states' = IF Len(kept) > maxStates THEN Tail(kept) ELSE kept
               /\ currentIndex' = Len(states') - 1
               /\ ~redo(HM').ret ]_vars

\* C3 witness: a saveState has run with the cursor before the last snapshot
C3_Witness ==
    /\ SaveStateWasCalled
    /\ ~lastOp.pre.isRestoring
    /\ lastOp.pre.currentIndex < lastOp.pre.length - 1
    /\ currentIndex = Len(states) - 1

\* C4: undo() followed by redo(), each restoration allowed to finish, leaves
\* the layer stack (order, metadata, pixels, active index) equal to what it
\* was immediately before the undo.
C4_UndoRedoRoundTrip ==
    (rt.phase = "redone" /\ DOMAIN jobs = {}) => LM = rt.before

\* a restoration started by undo or redo has not delivered all its loads
RestorePending == \E j \in DOMAIN jobs : jobs[j].kind = "restore"

\* C5: while a restoration started by undo or redo has not finished loading
\* all of its layers, saveState leaves the snapshot sequence and the cursor
\* unchanged, also when a second undo/redo was issued before the first
\* restoration's loads were delivered.
C5_NoSnapshotWhileRestoring ==
    [][ (RestorePending /\ SaveStateCalled)
        => UNCHANGED << states, currentIndex >> ]_vars

\* a restoration of the snapshot at the new cursor has been started: the flag
\* is raised and the stack is that snapshot's layers, each waiting for its image
RestorationStarted ==
    LET snap == states[currentIndex' + 1]
    IN  /\ isRestoring'
        /\ activeLayerIndex' = snap.activeLayerIndex
        /\ Len(layers') = Len(snap.layers)
        /\ \A i \in 1..Len(snap.layers) :
              /\ layers'[i].id = snap.layers[i].id
              /\ layers'[i].load.job # 0
              /\ layers'[i].load.data = snap.layers[i].data

\* C6: undo with the cursor at 0 and redo with the cursor at the last index
\* return false and leave snapshots, cursor, restoring flag and layer stack
\* unchanged; otherwise undo decrements and redo increments the cursor by
\* exactly 1, returns true and starts a restoration of the snapshot at the
\* new cursor.
C6_UndoRedoGuards ==
    [][ /\ (HandlerStep /\ lastOp'.op = "undo")
           => IF currentIndex = 0
              THEN /\ lastOp'.ret = "false"
                   /\ UNCHANGED << states, currentIndex, isRestoring, layers,
                                   activeLayerIndex >>
              ELSE /\ lastOp'.ret = "true"
                   /\ currentIndex' = currentIndex - 1
                   /\ states' = states
                   /\ RestorationStarted
        /\ (HandlerStep /\ lastOp'.op = "redo")
           => IF currentIndex = Len(states) - 1
              THEN /\ lastOp'.ret = "false"
                   /\ UNCHANGED << states, currentIndex, isRestoring, layers,
                                   activeLayerIndex >>
              ELSE /\ lastOp'.ret = "true"
                   /\ currentIndex' = currentIndex + 1
                   /\ states' = states
                   /\ RestorationStarted ]_vars

\* C6 witness: undo was called at the earliest snapshot of a history that
\* holds a later one, and did nothing
C6_Witness ==
    /\ lastOp.op = "undo"
    /\ lastOp.ret = "false"
    /\ lastOp.pre.currentIndex = 0
    /\ currentIndex = 0
    /\ Len(states) = 2

\* C7: once the restoration of an undo or redo has completed, with no other
\* user operation in between, serializing the layer stack yields exactly the
\* snapshot stored at the cursor.
C7_RestoreReproducesSnapshot ==
    (lastOp.op \in {"undo", "redo"} /\ lastOp.ret = "true" /\ DOMAIN jobs = {})
        => toJSON(LM) = states[currentIndex + 1]

\* C8: the stack always holds at least one layer; deleteLayer on a one-layer
\* stack changes nothing.
C8_AtLeastOneLayer ==
    /\ [](Len(layers) >= 1)
    /\ [][ (HandlerStep /\ lastOp'.op \in {"deleteLayer", "delete"} /\ Len(layers) = 1)
           => UNCHANGED << layers, activeLayerIndex >> ]_vars

\* C8 witness: deleteLayer(0) was the first call on the initial one-layer stack
C8_Witness ==
    /\ lastOp.op = "deleteLayer"
    /\ lastOp.arg = 0
    /\ steps = 1
    /\ Len(layers) = 1

\* C9: 0 <= activeLayerIndex < layers.length in every state, so
\* getActiveLayer returns an existing layer.
C9_ActiveIndexValid ==
    /\ 0 <= activeLayerIndex
    /\ activeLayerIndex < Len(layers)

\* C9 witness: the active top layer of a two-layer stack was deleted and the
\* active index came back into range
C9_Witness ==
    /\ lastOp.op = "delete"
    /\ lastOp.arg = 1
    /\ lastOp.ret = "true"
    /\ steps = 2
    /\ Len(layers) = 1
    /\ activeLayerIndex = 0

\* C10: deleteLayer(index) with index outside 0..length-1 leaves the layers
\* and the active index unchanged; with a valid index on a stack of two or
\* more layers it removes exactly that layer, keeps the order of the others
\* and leaves the active index in range.
C10_DeleteLayerBounds ==
    [][ (HandlerStep /\ lastOp'.op = "deleteLayer")
        => IF lastOp'.arg < 0 \/ lastOp'.arg >= Len(layers)
           THEN UNCHANGED << layers, activeLayerIndex >>
           ELSE Len(layers) >= 2
                => /\ layers' = SubSeq(layers, 1, lastOp'.arg)
                                    \o SubSeq(layers, lastOp'.arg + 2, Len(layers))
                   /\ 0 <= activeLayerIndex'
                   /\ activeLayerIndex' < Len(layers') ]_vars

C12_AddLayer ==
    [][ (HandlerStep /\ lastOp'.op = "newlayer")
        => LET top == layers'[Len(layers')]
           IN  /\ Len(layers') = Len(layers) + 1
               /\ SubSeq(layers', 1, Len(layers)) = layers
               /\ top.pix = {}
               /\ top.load = NoLoad
               /\ top.visible
               /\ top.opacity = 100
               /\ ~top.locked
               /\ top.width = canvas.width
               /\ top.height = canvas.height
               /\ \A i \in 1..Len(layers) : layers[i].id # top.id
               /\ activeLayerIndex' = Len(layers') - 1 ]_vars

\* C12 witness: a layer was added above an inked layer after the canvas had
\* been resized
C12_Witness ==
    /\ lastOp.op = "newlayer"
    /\ Len(layers) = 2
    /\ activeLayerIndex = 1
    /\ layers[1].pix # {}
    /\ layers[2].pix = {}
    /\ layers[2].width = 1536

\* C13: mergeDown(index) with index <= 0 or index >= length changes neither
\* the layers nor the active index; otherwise the layer below receives the
\* upper layer's ink over its own (nothing when the upper layer's opacity is
\* 0), the upper layer is removed so that the count drops by exactly one, and
\* every other layer is unchanged.
C13_MergeDown ==
    [][ (HandlerStep /\ lastOp'.op = "mergeDown")
        => LET index == lastOp'.arg
           IN  IF index <= 0 \/ index >= Len(layers)
               THEN UNCHANGED << layers, activeLayerIndex >>
               ELSE LET upper == layers[index + 1]
                        lower == layers[index]
                    IN  /\ Len(layers') = Len(layers) - 1
                        /\ layers'[index] =
                              [lower EXCEPT !.pix =
                                  IF upper.opacity = 0 THEN @
                                  ELSE @ \cup (upper.pix \cap InBounds(lower.width,
                                                                        lower.height))]
                        /\ \A i \in 1..(index - 1) : layers'[i] = layers[i]
                        /\ \A i \in (index + 2)..Len(layers) : layers'[i - 1] = layers[i]
                        /\ 0 <= activeLayerIndex' /\ activeLayerIndex' < Len(layers') ]_vars

\* C13 witness: an inked layer was merged into the layer below it
C13_Witness ==
    /\ lastOp.op = "mergeDown"
    /\ lastOp.arg = 1
    /\ steps = 3
    /\ Len(layers) = 1
    /\ layers[1].id = 1
    /\ layers[1].pix # {}

\* the stack without its top layer
WithoutTop(lm) == [lm EXCEPT !.layers = SubSeq(@, 1, Len(@) - 1)]

\* the layers (1-based positions) that are visible and have ink at p
VisibleInkAt(p) ==
    { i \in 1..Len(layers) : layers[i].visible /\ layers[i].opacity > 0 /\ p \in layers[i].pix }

\* the largest element of a non-empty set of numbers
Highest(S) == CHOOSE i \in S : \A j \in S : j <= i

\* C14: invisible layers contribute nothing to the flattened image.  In every
\* reachable stack whose top layer is invisible, the on-screen composite and
\* the host export equal those of the stack without that layer; and visible
\* layers are painted bottom to top: every pixel of either image shows the
\* ink of the highest visible layer that has ink there (all layers have
\* opacity 1), and where no visible layer has ink it is the pixel of the
\* composite of no layers.
C14_InvisibleLayersContributeNothing ==
    /\ (Len(layers) >= 2 /\ ~layers[Len(layers)].visible)
          => /\ exportCanvasWithAlpha(LM, canvas) = exportCanvasWithAlpha(WithoutTop(LM), canvas)
             /\ updateComposite(LM, canvas) = updateComposite(WithoutTop(LM), canvas)
    /\ LET exported == exportCanvasWithAlpha(LM, canvas)
           onScreen == updateComposite(LM, canvas)
           blank == exportCanvasWithAlpha([LM EXCEPT !.layers = << >>], canvas)
       IN  \A p \in InBounds(canvas.width, canvas.height) :
             LET shown == IF VisibleInkAt(p) = {}
                          THEN blank.pixel[p]
                          ELSE Ink(layers[Highest(VisibleInkAt(p))].id)
             IN  /\ exported.pixel[p] = shown
                 /\ onScreen.pixel[p] = shown

\* C14 witness: the top layer of a two-layer stack has ink and has just been
\* made invisible
C14_Witness ==
    /\ lastOp.op = "visibility"
    /\ lastOp.arg = 1
    /\ Len(layers) = 2
    /\ ~layers[2].visible
    /\ layers[2].pix # {}
    /\ layers[1].visible

\* C15: the flattened image handed to the host assumes no opaque background.
\* Whenever a handler exports it (saveState outside a restoration), every
\* pixel at which no visible layer has ink is transparent, and if exactly one
\* layer is visible, at opacity 1, every pixel equals that layer's own pixel.
C15_NoOpaqueBackground ==
    [][ (SaveStateCalled /\ ~isRestoring)
        => LET visible == { i \in 1..Len(layers') : layers'[i].visible }
           IN  \A p \in InBounds(canvas'.width, canvas'.height) :
                 /\ (\A i \in visible : layers'[i].opacity = 0 \/ p \notin layers'[i].pix)
                       => canvas_data'.pixel[p] = Transparent
                 /\ \A i \in visible :
                       (visible = {i} /\ layers'[i].opacity = 100)
                           => canvas_data'.pixel[p] = LayerPixel(layers'[i], p) ]_vars

ShortStrokes == { << >> } \cup { << p >> : p \in Probes }

\* C17: a pointer-up that ends a gesture of fewer than 2 samples returns the
\* recorder to Idle and changes no layer, no snapshot and not the cursor; and
\* drawStroke and erase called on any layer of the stack with fewer than 2
\* points leave the layer as it is.
C17_ShortGestureDiscarded ==
    /\ [](\A i \in 1..Len(layers) : \A points \in ShortStrokes :
             /\ drawStroke(layers[i], points) = layers[i]
             /\ erase(layers[i], points) = layers[i])
    /\ [][ (HandlerStep /\ lastOp'.op = "mouseup" /\ isDrawing /\ Len(currentStroke) < 2)
           => /\ ~isDrawing'
              /\ UNCHANGED << layers, activeLayerIndex, states, currentIndex >> ]_vars

\* C17 witness: a gesture of one sample has just been ended and discarded
C17_Witness ==
    /\ lastOp.op = "mouseup"
    /\ lastOp.ret = "discarded"
    /\ Len(currentStroke) = 1
    /\ ~isDrawing

\* a pointer-up ends a capture of 2 or more samples with a drawing tool
CommitStep ==
    /\ HandlerStep
    /\ lastOp'.op = "mouseup"
    /\ isDrawing
    /\ Len(currentStroke) >= 2
    /\ currentTool \in {"brush", "eraser"}

\* the stroke has been applied to the active layer, and to no other: brush
\* inks the samples that lie on the layer, eraser removes the ink at them
StrokeApplied ==
    LET samples == { currentStroke[i] : i \in 1..Len(currentStroke) }
        active == layers[activeLayerIndex + 1]
    IN  /\ activeLayerIndex' = activeLayerIndex
        /\ layers' = [layers EXCEPT ![activeLayerIndex + 1].pix =
                         IF currentTool = "brush"
                         THEN @ \cup (samples \cap InBounds(active.width, active.height))
                         ELSE @ \ samples]

\* C18 as claimed: every pointer-up that ends a capture of 2 or more samples
\* with a drawing tool applies the stroke to the active layer and takes a
\* history snapshot, so that afterwards the recorder is Idle and the snapshot
\* at the cursor contains the committed stroke, also while a restoration is
\* still loading.
C18_CommitAlwaysSnapshots ==
    [][ CommitStep
        => /\ StrokeApplied
           /\ ~isDrawing'
           /\ states'[currentIndex' + 1] = toJSON(LM') ]_vars

\* C18 amended: such a pointer-up applies the stroke to the active layer and
\* leaves the recorder Idle; if no restoration is in progress (isRestoring
\* false) it takes a snapshot, and the snapshot at the cursor is the stack
\* with the committed stroke; if one is in progress the snapshot sequence and
\* the cursor stay as they were.
C18_CommitSnapshotsUnlessRestoring ==
    [][ CommitStep
        => /\ StrokeApplied
           /\ ~isDrawing'
           /\ IF isRestoring
              THEN UNCHANGED << states, currentIndex >>
              ELSE /\ states'[currentIndex' + 1] = toJSON(LM')
                   /\ currentIndex' = Len(states') - 1 ]_vars

\* C18 witness: a brush stroke was committed while a restoration was in
\* progress; the layer has the ink, the snapshot at the cursor does not
C18_Witness ==
    /\ lastOp.op = "mouseup"
    /\ lastOp.ret = "committed"
    /\ lastOp.pre.isRestoring
    /\ currentTool = "brush"
    /\ layers[activeLayerIndex + 1].pix # {}
    /\ states[currentIndex + 1] # toJSON(LM)

\* C19: if the layer that was active at pointer-down (identified by its id)
\* has become locked or is no longer in the stack when the pointer-up comes,
\* the pointer-up changes no layer (so the stroke lands on no other layer)
\* and adds no snapshot, and the recorder returns to Idle.
C19_StaleGestureDiscarded ==
    [][ ( /\ HandlerStep
          /\ lastOp'.op = "mouseup"
          /\ isDrawing
          /\ \/ \A i \in 1..Len(layers) : layers[i].id # downLayer
             \/ \E i \in 1..Len(layers) : layers[i].id = downLayer /\ layers[i].locked )
        => /\ UNCHANGED << layers, activeLayerIndex, states, currentIndex >>
           /\ ~isDrawing' ]_vars

\* C20: fromJSON is atomic with respect to the other handlers: no handler
\* (pointer event, button click, export, serialize) runs in a state in which
\* the layer list has been replaced by a deserialize and some layer of it is
\* still waiting for its pixel content.
C20_DeserializeAtomic ==
    [][ HandlerStep => \A i \in 1..Len(layers) : layers[i].load = NoLoad ]_vars

\* a layer's raster failed to decode in this step
DecodeFailed == \E i \in 1..Len(layers) : ImageError(i)

\* C21: if the raster of a layer fails to decode during a deserialize, the
\* deserialize fails as a whole: the layer stack (layers, their pixels and
\* metadata, the active index) is what it was before the call.  (The claim
\* also requires the failure to reach the caller; fromDataURL sets no onerror
\* handler, so no path of the code runs on a failure at all.)
C21_DecodeFailureFailsDeserialize ==
    [][ (DecodeFailed /\ rt.phase = "configured")
            => toJSON(LM)' = toJSON(rt.before) ]_vars

\* the stack lm once every pending image of it has loaded
Loaded(lm) ==
    [lm EXCEPT !.layers = [i \in 1..Len(lm.layers) |->
                              IF lm.layers[i].load.job # 0
                              THEN onloadDraw(lm.layers[i], lm.layers[i].load.data)
                              ELSE lm.layers[i]]]

\* the opacity (in percent) and locked flags explored
Flags == { [opacity |-> 100, locked |-> FALSE], [opacity |-> 50, locked |-> TRUE],
           [opacity |-> 0, locked |-> FALSE] }

\* the stack lm with the top layer's opacity and locked flag set (no handler
\* of the program sets them; a host script can)
WithFlags(lm, opacity, locked) ==
    [lm EXCEPT !.layers[Len(lm.layers)].opacity = opacity,
               !.layers[Len(lm.layers)].locked = locked]

\* the rasters of the blob have the dimensions of the canvas
SameDimensions(json, size) ==
    \A i \in 1..Len(json.layers) :
        json.layers[i].data.width = size.width /\ json.layers[i].data.height = size.height

\* the fromJSON of the last onConfigure has loaded all its images, and no
\* handler ran since
ConfigureCompleted ==
    /\ rt.phase = "configured"
    /\ \A i \in 1..Len(layers) : layers[i].load = NoLoad

\* C22: for every layer stack of one or more layers, serializing it and
\* deserializing the result on a canvas of the same dimensions yields, once
\* all images have loaded, a stack whose serialization equals the original
\* one (ids, names, visibility, opacity, locked flags, rasters, active
\* index) and whose composite is the same; and the stack that onConfigure
\* leaves when its loads complete serializes to the blob it was given.
C22_SerializeRoundTrip ==
    /\ (Len(layers) >= 1 /\ SameDimensions(toJSON(Loaded(LM)), canvas))
         => \A f \in Flags :
              LET original == WithFlags(Loaded(LM), f.opacity, f.locked)
                  back == Loaded(fromJSON(toJSON(original), canvas.width, canvas.height, 1))
              IN  /\ toJSON(back) = toJSON(original)
                  /\ updateComposite(back, canvas) = updateComposite(original, canvas)
    /\ (ConfigureCompleted /\ Len(layers) >= 1 /\ SameDimensions(layer_data, canvas))
         => toJSON(LM) = layer_data

\* onConfigure has restored, on a canvas of the same size, a blob of two
\* layers with ink and an active index other than 0
C22_Witness ==
    /\ ConfigureCompleted
    /\ SameDimensions(layer_data, canvas)
    /\ layer_data.activeLayerIndex > 0
    /\ \E i \in 1..Len(layer_data.layers) : layer_data.layers[i].data.pix # {}
    /\ toJSON(LM) = layer_data

\* pixel c (a layer id and a position) is painted in the stack
Painted(stack, c) ==
    \E i \in 1..Len(stack) : stack[i].id = c.layer /\ c.pixel \in stack[i].pix

\* every layer of the stack, resized to any explored size and back, keeps its
\* pixels inside the smaller bounds where they were and is transparent outside
ResizeRoundTrip ==
    \A i \in 1..Len(layers), v \in RatioKeys :
        LET layer == layers[i]
            other == ASPECT_RATIOS(String(v))
            back  == resize(resize(layer, other.width, other.height),
                            layer.width, layer.height)
        IN  /\ back.width = layer.width /\ back.height = layer.height
            /\ back.pix = layer.pix \cap InBounds(min(layer.width, other.width),
                                                  min(layer.height, other.height))

C24_BufferDimensions ==
    \A i \in 1..Len(layers) :
        layers[i].width = canvas.width /\ layers[i].height = canvas.height

\* a resize has run while a restoration was loading a layer, next to a layer
\* that was not the active one
C24_Witness ==
    /\ lastOp.op = "slider" /\ lastOp.ret = "true"
    /\ lastOp.pre.isRestoring
    /\ \E i \in 1..Len(layers) : layers[i].load.job # 0
    /\ Len(layers) >= 2
    /\ C24_BufferDimensions

\* the handler of this step is one of the committed changes of the stack
\* that C25 lists, other than undo and redo
CommittedChange ==
    /\ HandlerStep
    /\ \/ lastOp'.op = "mouseup" /\ lastOp'.ret = "committed"
       \/ lastOp'.op \in {"clear", "delete", "addImage", "hostImage", "slider"}
            /\ lastOp'.ret = "true"
       \/ lastOp'.op \in {"newlayer", "visibility"}

\* the restoration of an undo completes in this step
UndoCompleted ==
    /\ rt.phase = "undone" /\ rt' = rt
    /\ RestorePending /\ ~RestorePending'

\* C25: after every committed change of the stack that changes the flattened
\* image (stroke or erase commit, clear, add layer, delete layer, visibility
\* toggle, image load, resize, undo, redo), once the handler and the
\* restoration it started have finished, the image last exported to the host
\* is the composite of the current stack.
C25_ExportFollowsEveryChange ==
    [][ /\ (CommittedChange /\ DOMAIN jobs' = {}
              /\ updateComposite(LM, canvas)' # updateComposite(LM, canvas))
           => canvas_data' = exportCanvasWithAlpha(LM, canvas)'
        /\ (UndoCompleted /\ DOMAIN jobs' = {}
              /\ updateComposite(LM, canvas)' # updateComposite(rt.before, canvas))
           => canvas_data' = exportCanvasWithAlpha(LM, canvas)' ]_vars

\* C26: whenever no gesture is being captured and no restoration is in
\* progress, the snapshot at the history cursor is the serialization of the
\* current layer stack (every operation that changes the serialized stack,
\* visibility toggle, active-layer change and resize included, has been
\* followed by a snapshot).
C26_CursorSnapshotIsCurrentStack ==
    (~isDrawing /\ ~isRestoring /\ DOMAIN jobs = {})
        => states[currentIndex + 1] = toJSON(LM)

\* C27: the canvas instances are independent: a user operation directed at
\* one node (a stroke, an undo or redo by button, an undo or redo by Ctrl+Z
\* or Ctrl+Y while working on it) leaves the canvas content, the snapshot
\* sequence and the history cursor of every other live node unchanged.
C27_InstancesIndependent ==
    [][ (HandlerStep /\ lastOp'.op \in {"pathCreated", "action", "keydown"})
            => \A m \in Nodes \ {lastOp'.arg} :
                   /\ nodes'[m].objects = nodes[m].objects
                   /\ nodes'[m].hm.states = nodes[m].hm.states
                   /\ nodes'[m].hm.currentIndex = nodes[m].hm.currentIndex ]_vars

\* the table of the README, "Aspect Ratio System": slider value, dimensions
README ==
    << << -6, 1536, 640 >>, << -5, 1440, 720 >>, << -4, 1344, 768 >>,
       << -3, 1216, 832 >>, << -2, 1152, 896 >>, << -1, 1144, 912 >>,
       << 0, 1024, 1024 >>,
       << 1, 912, 1144 >>, << 2, 896, 1152 >>, << 3, 832, 1216 >>,
       << 4, 768, 1344 >>, << 5, 720, 1440 >>, << 6, 640, 1536 >> >>

\* the decimal numerals of the slider values
Numeral(n) ==
    << "-6", "-5", "-4", "-3", "-2", "-1", "0", "1", "2", "3", "4", "5", "6" >>[n + 7]

\* the number, in quarters, that an input denotes, or "none"
Denotes(v) ==
    IF v.type = "number" THEN << v.q >>
    ELSE IF v.type = "string" /\ v.text \in {"3", "-2.5", " 7 ", "-6.75"}
    THEN << CHOOSE q \in -28..28 :
               \/ v.text = "3" /\ q = 12
               \/ v.text = "-2.5" /\ q = -10
               \/ v.text = " 7 " /\ q = 28
               \/ v.text = "-6.75" /\ q = -27 >>
    ELSE << >>

\* what C28 requires of the result r for the input v
Resolved(v, r) ==
    /\ r.value \in -6..6
    /\ IF Denotes(v) = << >>
       THEN r.value = 0
       ELSE LET q == Denotes(v)[1]
            IN  /\ (q >= -24 /\ q <= 24) => (4 * r.value - q \in -2..2)
                /\ q > 24 => r.value = 6
                /\ q < -24 => r.value = -6
    /\ r.key = Numeral(r.value)
    /\ \E i \in 1..Len(README) :
          /\ README[i][1] = r.value
          /\ r.info.width = README[i][2]
          /\ r.info.height = README[i][3]

\* C28: resolveAspectRatio maps every input to one of the 13 documented
\* presets: the value is an integer in -6..6 (a numeric input rounded to the
\* nearest integer and clamped, any other input 0), the key is the numeral
\* of the value, and width and height are those of the README's row for the
\* value; the slider's setter stores that value and gives the canvas that
\* size.
C28_ResolveAspectRatio ==
    /\ [](\A v \in SliderInputs : Resolved(v, resolveAspectRatio(v)))
    /\ [][ (HandlerStep /\ lastOp'.op = "slider")
              => /\ Resolved(lastOp'.arg, [key |-> Numeral(ratio'), info |-> canvas',
                                           value |-> ratio']) ]_vars

\* the setter was given 2.5 (a tie, rounded up to 3), a value beyond the
\* range, or a value that is not a number, and resized the canvas
C28_Witness ==
    /\ lastOp.op = "slider"
    /\ lastOp.arg \in {JSNumber(10), JSNumber(-29), JSString("abc")}
    /\ lastOp.ret = "true" \/ ratio = 0
    /\ canvas = resolveAspectRatio(lastOp.arg).info

\* C29: after every saveState that runs while no restoration is in progress
\* (the constructor's call, a call after an undo, a call at capacity that
\* evicts the oldest snapshot), the cursor is the last index of the snapshot
\* sequence and the last snapshot is the serialization of the layer stack at
\* the time of the call.
C29_SaveStateMovesCursorToEnd ==
    /\ [](steps = 0 => /\ currentIndex = Len(states) - 1
                        /\ states[Len(states)] = toJSON(LM))
    /\ [][ (SaveStateCalled /\ ~isRestoring)
              => /\ currentIndex' = Len(states') - 1
                 /\ states'[Len(states')] = toJSON(LM)' ]_vars

\* a saveState has run at capacity with the cursor before the end: it
\* dropped the redo branch, and the cursor is at the new snapshot
C29_Witness ==
    /\ SaveStateWasCalled
    /\ ~lastOp.pre.isRestoring
    /\ lastOp.pre.length = maxStates
    /\ lastOp.pre.currentIndex < lastOp.pre.length - 1
    /\ currentIndex = Len(states) - 1
    /\ states[Len(states)] = toJSON(LM)

\* C30: snapshots are immutable: in every step (saveState, undo, redo, image
\* load callbacks, edits of the stack) the snapshots that stay in the history
\* keep their content and their relative order; a step can only remove a
\* suffix that lies after the cursor, append one snapshot at the end, and
\* remove the oldest snapshot.
C30_SnapshotsImmutable ==
    [][ \E evicted \in {0, 1}, appended \in {0, 1},
           kept \in (currentIndex + 1) .. Len(states) :
            /\ Len(states') = kept + appended - evicted
            /\ \A i \in 1..(kept - evicted) : states'[i] = states[i + evicted] ]_vars

\* a saveState has run at capacity: the oldest snapshot is gone, the others
\* have moved down by one and a new one is at the end
C30_Witness ==
    /\ SaveStateWasCalled
    /\ ~lastOp.pre.isRestoring
    /\ lastOp.pre.length = maxStates
    /\ lastOp.pre.currentIndex = lastOp.pre.length - 1
    /\ maxStates >= 2
    /\ Len(states) = maxStates
    /\ states[Len(states)] # states[Len(states) - 1]

\* the sample sequences of two probes
TwoSamples == { << p, q >> : p, q \in Probes }

\* C31: a stroke or erase commit changes the pixel buffer of the layer that is
\* active at the pointer-up and nothing else of the stack: every other layer
\* (pixels, visibility, opacity, locked flag, position), the active layer's
\* own flags, the layer count and the active index stay as they were; and
\* drawStroke, on any layer with any two samples, changes nothing of the
\* layer but its pixels (it neither composites nor snapshots: both calls are
\* made by the pointer-up handler after it).
C31_CommitChangesOneBuffer ==
    /\ [](\A i \in 1..Len(layers) : \A points \in TwoSamples :
             drawStroke(layers[i], points)
                 = [layers[i] EXCEPT !.pix = drawStroke(layers[i], points).pix])
    /\ [][ CommitStep
           => /\ activeLayerIndex' = activeLayerIndex
              /\ Len(layers') = Len(layers)
              /\ layers' = [layers EXCEPT ![activeLayerIndex + 1].pix =
                                            layers'[activeLayerIndex + 1].pix] ]_vars

\* C31 witness: a brush stroke was committed to the hidden top layer of a
\* stack of two while the layer below holds other ink
C31_Witness ==
    /\ lastOp.op = "mouseup"
    /\ lastOp.ret = "committed"
    /\ currentTool = "brush"
    /\ Len(layers) = 2
    /\ activeLayerIndex = 1
    /\ ~layers[2].visible
    /\ layers[2].pix # {}
    /\ layers[1].pix = {}

C33_StoredPressureIsDevicePressure ==
    \A i \in 1..Len(pressures) :
        /\ pressures[i].device.type = "number" => pressures[i].pressure = pressures[i].device
        /\ pressures[i].device.type # "number" => pressures[i].pressure = JSNumber(4)
        /\ OrOne(pressures[i].pressure) = pressures[i].pressure

\* C34: every restoration terminates: once every image load of the undo,
\* redo and configure calls so far has succeeded or failed (no load is left
\* to be delivered), the restoring flag is false again.
C34_RestorationTerminates ==
    (DOMAIN jobs = {} /\ \A i \in 1..Len(layers) : layers[i].load.job = 0)
        => ~isRestoring

\* C35: a pointer-up adds a history snapshot only if it applied drawStroke or
\* erase to a layer: a pointer-up that finds the tool "select" changes no
\* pixels and leaves the snapshot sequence and the cursor as they were.
C35_SnapshotOnlyIfDrawn ==
    [][ (HandlerStep /\ lastOp'.op = "mouseup")
        => /\ (states' # states \/ currentIndex' # currentIndex)
                  => currentTool \in {"brush", "eraser"}
           /\ currentTool = "select"
                  => UNCHANGED << layers, states, currentIndex >> ]_vars

\* C36: while a layer's locked flag is true, a pointer-up, the Clear action,
\* a loaded or host-supplied image and mergeDown leave its pixels as they
\* were: a layer that is locked before and after such a handler holds the
\* same pixels.
C36_LockedLayerUnchanged ==
    [][ ( /\ HandlerStep
          /\ lastOp'.op \in {"mouseup", "clear", "addImage", "hostImage", "mergeDown"} )
        => \A i \in 1..Len(layers) : \A j \in 1..Len(layers') :
               (layers[i].locked /\ layers'[j].locked /\ layers'[j].id = layers[i].id)
                   => layers'[j].pix = layers[i].pix ]_vars

\* C37: once every pending image callback of the updateComposite calls made
\* so far has been delivered, in whatever order, the fabric canvas holds
\* exactly one composite image, the one of the most recent call.
C37_OneCompositeShown ==
    fabric.pending = {} => fabric.objects = << fabric.calls >>

\* the number of resizeCanvas calls of the runs of the setter in the log
RECURSIVE Resizes(_)
Resizes(log) == IF log = << >> THEN 0 ELSE log[1].resizes + Resizes(Tail(log))

\* C38: an assignment to the slider resizes the canvas exactly when the
\* resolved value differs from the stored one, and then once (each resize
\* recomposites once); it invokes the widget's callback at most once and
\* ends also when the callback assigns the slider again: the nested
\* assignment runs the setter once more, which does not invoke the callback.
C38_SliderAssignment ==
    [][ /\ (HandlerStep /\ lastOp'.op = "slider")
            => /\ fabric'.calls = fabric.calls
                       + (IF ratio # resolveAspectRatio(lastOp'.arg).value THEN 1 ELSE 0)
               /\ ratio = resolveAspectRatio(lastOp'.arg).value
                       => UNCHANGED << layers, canvas >>
        /\ (HandlerStep /\ lastOp'.op = "sliderCallback")
            => LET log == lastOp'.log
               IN  /\ Len(log) = 1 + Len(lastOp'.callback.assigns)
                   /\ log[1].stored = ratio
                   /\ log[1].assigned = lastOp'.arg
                   /\ \A n \in 1..Len(log) :
                          /\ log[n].resolved = resolveAspectRatio(log[n].assigned).value
                          /\ n > 1 => log[n].stored = log[n - 1].resolved
                          /\ log[n].resizes = IF log[n].stored # log[n].resolved THEN 1 ELSE 0
                          /\ log[n].invoked = IF n = 1 THEN 1 ELSE 0
                   /\ fabric'.calls = fabric.calls + Resizes(log)
                   /\ ratio' = log[Len(log)].resolved
                   /\ canvas' = ASPECT_RATIOS(String(ratio'))
                   /\ Resizes(log) = 0 => UNCHANGED << layers, canvas >> ]_vars

\* C38 witness: the slider was assigned the value it held, so nothing was
\* resized, and the callback then assigned another value, which resized the
\* canvas once without a second callback
C38_Witness ==
    /\ lastOp.op = "sliderCallback"
    /\ Len(lastOp.log) = 2
    /\ lastOp.log[1].resizes = 0
    /\ lastOp.log[1].invoked = 1
    /\ lastOp.log[2].resizes = 1
    /\ lastOp.log[2].invoked = 0
    /\ canvas # ASPECT_RATIOS("0")

====
